---- MODULE Spec2Model ----
(***************************************************************************)
(* A model of the Penelope assistant: the conversation memory              *)
(* (src/memory.py), the knowledge-base retrieval (src/knowledge_base.py)   *)
(* and the chat command router (src/ui.py).  The LLM, the summarizer, the  *)
(* vector store and the web search are collaborators: the model records    *)
(* the calls made to them and draws their answers from small sets.         *)
(***************************************************************************)
EXTENDS Integers, Sequences, FiniteSets, TLC

VARIABLES
    memory_file,         \* the persisted message log (config "memory_file")
    paper_details_file,  \* the persisted paper registry
    constructed,         \* "none" | "ok" | "raised": outcome of PenelopeMemory.__init__
    messages,            \* PenelopeMemory.messages, a JSON value
    chat_memory,         \* summary_memory.chat_memory: the summarizer's chat history
    thread_id,           \* PenelopeMemory.thread_id, the n-th token issued
    summary_due,         \* an append reached a multiple of SummaryEvery and the
                         \* summarizer has not been asked since
    last                 \* the last operation on the memory: arguments, collaborator
                         \* calls in order, outcome

VARIABLES
    config,              \* ConfigManager.config, the keys the model reads
    db,                  \* the vector store: the chunks it holds
    search_log,          \* the search-log file: one block per logged search
    chatbot,             \* the chat history component: a list of {role, content}
    msg,                 \* the input textbox
    ui_last              \* the last call of chat: utterance, flow, collaborator
                         \* calls in order, retrieval result

VARIABLES
    config_file,         \* config.json as the program finds it at start-up
    environ,             \* the services whose <SERVICE>_API_KEY variable is set
    manager              \* ConfigManager: the outcome of _load_config

cfg_vars == <<config_file, environ, manager>>

ui_vars == <<cfg_vars, config, db, search_log, chatbot, msg, ui_last>>

mem_vars == <<memory_file, paper_details_file, constructed, messages, chat_memory,
              thread_id, summary_due, last>>

vars == <<mem_vars, ui_vars>>

mem_vars_but_registry ==
    <<memory_file, constructed, messages, chat_memory, thread_id, summary_due, last>>

----------------------------------------------------------------------------
(* Bounds *)

MaxLen == 14        \* longest message log explored
MaxSessions == 3    \* session tokens issued (constructions and resets)
MaxInitLen == 11    \* longest well-formed log found on disk at start

\* the lengths of the well-formed logs found on disk at start: short ones, and
\* the ones around the threshold, odd and even
InitLens == {n \in 0..MaxInitLen : n <= 1 \/ n >= 7}

(* Program constants *)

SummaryEvery == 10  \* memory.py:121,137: the message-count threshold

----------------------------------------------------------------------------
(* JSON values as the code sees them.  A value is [type, items]; items are *)
(* the elements a Python for-loop yields.  An element is [role, content];  *)
(* NoKey marks a key the element lacks (or an element that is no dict).    *)

NoKey == "<missing>"

Msg(r, c) == [role |-> r, content |-> c]

JList(s) == [type |-> "list", items |-> s]
EmptyList == JList(<<>>)

Queries == {"q1"}
Answers == {"a1"}
Summaries == {"s0", "s1"}

\* a well-formed log of n messages as get_response leaves it: user, assistant, ...
RECURSIVE GenLog(_)
GenLog(n) ==
    IF n = 0 THEN <<>>
    ELSE Append(GenLog(n - 1),
                IF n % 2 = 1 THEN Msg("user", "q0") ELSE Msg("assistant", "a0"))

WellFormedMsg(m) == m.role \in {"user", "assistant"} /\ m.content # NoKey

WellFormedLog(v) ==
    /\ v.type = "list"
    /\ \A i \in 1..Len(v.items) : WellFormedMsg(v.items[i])

\* file states: "missing", "invalid" (not JSON, e.g. truncated by a failed write),
\* "json" (holds value)
FileOf(v) == [state |-> "json", value |-> v]
MissingFile == [state |-> "missing", value |-> EmptyList]
InvalidFile == [state |-> "invalid", value |-> EmptyList]

IllShapedValues ==
    { [type |-> "dict", items |-> <<>>],                      \* {}
      [type |-> "dict", items |-> <<Msg(NoKey, NoKey)>>],     \* {"a": 1}
      [type |-> "str",  items |-> <<>>],                      \* ""
      [type |-> "num",  items |-> <<>>],                      \* 5, null, true
      JList(<<Msg(NoKey, NoKey)>>),                           \* [1]
      JList(<<Msg("user", "q0"), Msg("assistant", NoKey)>>),  \* no "content"
      JList(<<Msg("system", "x0")>>) }                        \* another role

InitFiles ==
    {MissingFile, InvalidFile}
    \cup {FileOf(v) : v \in IllShapedValues}
    \cup {FileOf(JList(GenLog(n))) : n \in InitLens}

\* the registry file: "missing", "invalid" (not JSON), "dict" (a JSON object
\* keyed by paper id, papers in insertion order), "other" (JSON of another type)
Registry(state, papers) == [state |-> state, papers |-> papers]

PaperRecord(id, title, authors, url, summary) ==
    [id |-> id, title |-> title, authors |-> authors, url |-> url,
     summary |-> summary]

Id_p1 == <<"p", "1">>
Id_p2 == <<"p", "2">>

InitRegistries ==
    { Registry("missing", <<>>),
      Registry("dict", <<PaperRecord(Id_p1, "t1", "a1", "u1", 120)>>) }

----------------------------------------------------------------------------
(* The last-operation record *)

NoCall ==
    [op |-> "none", prevOp |-> "none", raised |-> FALSE,
     startLog |-> EmptyList, startChat |-> <<>>, startThread |-> 0,
     startRegistry |-> Registry("missing", <<>>),
     query |-> "", answer |-> "", summary |-> "", calls |-> <<>>,
     history |-> EmptyList, writes |-> <<>>,
     dueAtStart |-> FALSE, dueAtGen |-> FALSE,
     context |-> "", sent |-> <<>>, llm |-> "none", saved |-> <<>>]

----------------------------------------------------------------------------
(* PenelopeMemory: loading and saving the message log *)

\* len(x) of a JSON value raises TypeError on a number, null or boolean
PyLenRaises(v) == v.type = "num"
PyLen(v) == Len(v.items)

\* memory.py:53-56: msg["role"] raises on an element without that key (or that
\* is no dict); msg["content"] is read only for the two known roles
ElemRaises(m) ==
    \/ m.role = NoKey
    \/ m.role \in {"user", "assistant"} /\ m.content = NoKey

LoadRaises(v) ==
    \/ PyLenRaises(v)
    \/ \E i \in 1..Len(v.items) : ElemRaises(v.items[i])

\* the messages handed to the summarizer's chat history by the loop of
\* _load_messages: user and assistant entries, others are skipped
RECURSIVE ChatOf(_)
ChatOf(s) ==
    IF s = <<>> THEN <<>>
    ELSE IF Head(s).role \in {"user", "assistant"}
         THEN <<Head(s)>> \o ChatOf(Tail(s))
         ELSE ChatOf(Tail(s))

\* _load_messages: the except clause names FileNotFoundError and
\* json.JSONDecodeError only, so every other exception leaves the constructor
_load_messages(file) ==
    IF file.state \in {"missing", "invalid"}
    THEN [raised |-> FALSE, messages |-> EmptyList, chat |-> <<>>]
    ELSE IF LoadRaises(file.value)
         THEN [raised |-> TRUE, messages |-> file.value, chat |-> <<>>]
         ELSE [raised |-> FALSE, messages |-> file.value,
               chat |-> ChatOf(file.value.items)]

WriteOutcomes == {"ok", "open_failed", "dump_failed"}

\* _save_messages: open(..., "w") then json.dump; every exception is logged and
\* swallowed.  A failed open leaves the file as it was, a failed dump leaves a
\* truncated file.
_save_messages(file, msgs, w) ==
    CASE w = "ok" -> FileOf(msgs)
      [] w = "open_failed" -> file
      [] OTHER -> InvalidFile

\* the memory's mutable state, threaded through the helpers below
MemState == [messages |-> messages, chat |-> chat_memory, file |-> memory_file,
             due |-> summary_due, raised |-> FALSE]

ReachesBoundary(n) == n >= SummaryEvery /\ n % SummaryEvery = 0

add_message_unsaved(st, message, is_human, w) ==
    LET m == Msg(IF is_human THEN "user" ELSE "assistant", message)
    IN  IF st.messages.type # "list"
        THEN [st EXCEPT !.chat = Append(st.chat, m), !.raised = TRUE]
        ELSE [st EXCEPT !.chat = Append(st.chat, m),
                        !.messages = JList(Append(st.messages.items, m)),
                        !.due = st.due \/ ReachesBoundary(Len(st.messages.items) + 1)]

\* add_message: the summarizer's chat history first, then messages.append (an
\* AttributeError when messages is no list), then the save
add_message(st, message, is_human, w) ==
    LET m == Msg(IF is_human THEN "user" ELSE "assistant", message)
        chat2 == Append(st.chat, m)
    IN  IF st.messages.type # "list"
        THEN [st EXCEPT !.chat = chat2, !.raised = TRUE]
        ELSE LET msgs2 == JList(Append(st.messages.items, m))
             IN  [st EXCEPT !.chat = chat2,
                            !.messages = msgs2,
                            !.due = st.due \/ ReachesBoundary(Len(msgs2.items)),
                            !.file = _save_messages(st.file, msgs2, w)]

\* reset: messages = [], summary_memory.clear(), a new token (in the action),
\* _save_messages
reset_keeps_summarizer(st, w) ==
    [st EXCEPT !.messages = EmptyList, !.due = FALSE,
               !.file = _save_messages(st.file, EmptyList, w)]

reset(st, w) ==
    [st EXCEPT !.messages = EmptyList,
               !.chat = <<>>,
               !.due = FALSE,
               !.file = _save_messages(st.file, EmptyList, w)]

----------------------------------------------------------------------------
(* PenelopeMemory.get_response *)

\* memory.py:121
NeedsSummary(n) == n >= SummaryEvery /\ n % SummaryEvery = 0

\* memory.py:137
UsesSummary_above(n) == n > SummaryEvery
UsesSummary_onBoundary(n) == n >= SummaryEvery /\ n % SummaryEvery = 0
UsesSummary(n) == n >= SummaryEvery

HistoryContext(s) == "Here's a summary of our conversation so far: " \o s
Acknowledgement == "I understand the conversation context and the papers we've discussed. What would you like to know next?"

\* memory.py:144-147
SummaryHistory(s) ==
    JList(<<Msg("user", HistoryContext(s)), Msg("assistant", Acknowledgement)>>)

\* memory.py:153
FullHistory_recent(msgs) ==
    IF Len(msgs.items) <= 6 THEN msgs
    ELSE [msgs EXCEPT !.items = SubSeq(msgs.items, Len(msgs.items) - 5, Len(msgs.items))]
FullHistory(msgs) == msgs

SumOutcomes == Summaries \cup {"raise"}
ErrorAnswer == "I encountered an error. Please try again."

\* The whole of get_response.  o1, o2: what load_memory_variables does at line
\* 124 and at line 139; answer: what claude_model.get_response returns (it
\* catches its own exceptions and returns a text); w1, w2: the two saves.
get_response(st, query, o1, o2, answer, w1, w2) ==
    LET n == PyLen(st.messages)
        first == NeedsSummary(n)
        second == UsesSummary(n)
        calls1 == IF first THEN <<"summarize">> ELSE <<>>
        due1 == IF first /\ o1 # "raise" THEN FALSE ELSE st.due
        calls2 == IF second THEN Append(calls1, "summarize") ELSE calls1
        due2 == IF second /\ o2 # "raise" THEN FALSE ELSE due1
        history == IF second THEN SummaryHistory(o2) ELSE FullHistory(st.messages)
        failed(calls, due) ==
            [st |-> [st EXCEPT !.due = due], answer |-> ErrorAnswer, calls |-> calls,
             history |-> EmptyList, summary |-> "", writes |-> <<>>,
             dueAtGen |-> FALSE]
    IN  IF first /\ o1 = "raise" THEN failed(calls1, due1)
        ELSE IF second /\ o2 = "raise" THEN failed(calls2, due2)
        ELSE LET stA == add_message([st EXCEPT !.due = due2], query, TRUE, w1)
                 stB == add_message(stA, answer, FALSE, w2)
                 calls3 == Append(calls2, "generate")
             IN  IF stA.raised
                 THEN [st |-> [stA EXCEPT !.raised = FALSE], answer |-> ErrorAnswer,
                       calls |-> calls3, history |-> history,
                       summary |-> IF second THEN o2 ELSE "", writes |-> <<>>,
                       dueAtGen |-> due2]
                 ELSE [st |-> stB, answer |-> answer, calls |-> calls3,
                       history |-> history,
                       summary |-> IF second THEN o2 ELSE "", writes |-> <<w1, w2>>,
                       dueAtGen |-> due2]


----------------------------------------------------------------------------
(* Texts the router inspects are sequences of one-character strings *)

LowerChar(c) ==
    CASE c = "A" -> "a"
      [] c = "B" -> "b"
      [] c = "C" -> "c"
      [] c = "D" -> "d"
      [] c = "E" -> "e"
      [] c = "F" -> "f"
      [] c = "G" -> "g"
      [] c = "H" -> "h"
      [] c = "I" -> "i"
      [] c = "J" -> "j"
      [] c = "K" -> "k"
      [] c = "L" -> "l"
      [] c = "M" -> "m"
      [] c = "N" -> "n"
      [] c = "O" -> "o"
      [] c = "P" -> "p"
      [] c = "Q" -> "q"
      [] c = "R" -> "r"
      [] c = "S" -> "s"
      [] c = "T" -> "t"
      [] c = "U" -> "u"
      [] c = "V" -> "v"
      [] c = "W" -> "w"
      [] c = "X" -> "x"
      [] c = "Y" -> "y"
      [] c = "Z" -> "z"
      [] OTHER -> c

\* str.lower()
Lower(s) == [i \in 1..Len(s) |-> LowerChar(s[i])]

\* s.startswith(p)
StartsWith(s, p) == Len(s) >= Len(p) /\ SubSeq(s, 1, Len(p)) = p

\* s[k:]
From(s, k) == SubSeq(s, k + 1, Len(s))

\* p in s
Contains(s, p) ==
    \E i \in 0..(Len(s) - Len(p)) : SubSeq(s, i + 1, i + Len(p)) = p

IsSpace(c) == c \in {" ", "\t", "\n"}

RECURSIVE LStrip(_)
LStrip(s) == IF s # <<>> /\ IsSpace(Head(s)) THEN LStrip(Tail(s)) ELSE s

RECURSIVE RStrip(_)
RStrip(s) ==
    IF s # <<>> /\ IsSpace(s[Len(s)]) THEN RStrip(SubSeq(s, 1, Len(s) - 1)) ELSE s

\* str.strip()
Strip(s) == RStrip(LStrip(s))

\* s.split('/')[-1]
RECURSIVE LastSegment(_)
LastSegment(s) ==
    IF \E i \in 1..Len(s) : s[i] = "/"
    THEN LastSegment(Tail(s))
    ELSE s

P_search_arxiv == <<"s", "e", "a", "r", "c", "h", " ", "a", "r", "x", "i", "v", ":">>
P_summarize_arxiv == <<"s", "u", "m", "m", "a", "r", "i", "z", "e", " ", "a", "r", "x", "i", "v", ":">>
P_search_kb == <<"s", "e", "a", "r", "c", "h", " ", "k", "b", ":">>
P_check_kb == <<"c", "h", "e", "c", "k", " ", "k", "b">>
P_perplexity == <<"p", "e", "r", "p", "l", "e", "x", "i", "t", "y", ":">>
W_detail == <<"d", "e", "t", "a", "i", "l">>
W_full == <<"f", "u", "l", "l">>
W_bitcoin == <<"b", "i", "t", "c", "o", "i", "n">>
W_blockchain == <<"b", "l", "o", "c", "k", "c", "h", "a", "i", "n">>
W_crypto == <<"c", "r", "y", "p", "t", "o">>

\* what the user types
Utterances ==
    { <<"s", "e", "a", "r", "c", "h", " ", "k", "b", ":", " ", "l", "n">>,
      <<"S", "E", "A", "R", "C", "H", " ", "K", "B", ":", " ", "l", "n">>,
      <<"S", "e", "a", "r", "c", "h", " ", "K", "b", ":">>,
      <<"l", "n">>,
      <<" ", "s", "e", "a", "r", "c", "h", " ", "k", "b", ":", " ", "l", "n">>,
      <<"s", "e", "a", "r", "c", "h", " ", "a", "r", "x", "i", "v", ":", " ", "l", "n">>,
      <<"S", "u", "m", "m", "a", "r", "i", "z", "e", " ", "a", "r", "x", "i", "v", ":", " ", "p", "1">>,
      <<"c", "h", "e", "c", "k", " ", "k", "b">>,
      <<"C", "h", "e", "c", "k", " ", "K", "B", " ", "d", "e", "t", "a", "i", "l", "s">>,
      <<"p", "e", "r", "p", "l", "e", "x", "i", "t", "y", ":", " ", "l", "n">>,
      <<"a", "d", "d", " ", "t", "o", " ", "k", "b", ":", " ", "p", "1">>,
      <<" ", " ">> }

----------------------------------------------------------------------------
(* KnowledgeBase.search_relevant_context *)

MaxDocs == 2          \* chunks in the vector store

NoInfoLen == 48       \* len("No relevant information found in knowledge base.")
ErrorInfoLen == 49    \* len("Error retrieving information from knowledge base.")
PassageOverhead == 38 \* the fixed characters of a formatted passage
DefaultThreshold == 20  \* relevance_threshold 0.2, in hundredths

\* relevance scores, in hundredths
ScoreVals == {20, 21, 90}
Thresholds == {DefaultThreshold, 50}

\* a stored chunk: page_content and the metadata keys the search reads
Chunk(content, source, file_type, type, title) ==
    [content |-> content, source |-> source, file_type |-> file_type,
     type |-> type, title |-> title]

\* NoText marks a metadata key the chunk lacks
NoText == <<"<missing>">>

Chunk_txt == Chunk(<<"l", "n", " ", "f", "e", "e", "s">>, <<"/", "d", "o", "c", "s", "/", "a", ".", "t", "x", "t">>, <<"t", "x", "t">>, NoText, NoText)
Chunk_paper == Chunk(<<"l", "n", " ", "r", "o", "u", "t", "i", "n", "g">>, <<"a", "r", "x", "i", "v">>, NoText, NoText, <<"T", "2">>)

Docs == {Chunk_txt, Chunk_paper}

\* dict.get(key, default)
GetOr(v, default) == IF v = NoText THEN default ELSE v

\* what similarity_search_with_relevance_scores may return for a store: up to
\* k of its chunks, each once, ranked by descending relevance score; or it raises
Ranked(store, k) ==
    LET m == IF k < Len(store) THEN k ELSE Len(store)
        orders == {p \in [1..m -> 1..Len(store)] :
                      \A i, j \in 1..m : i # j => p[i] # p[j]}
        scores == {sc \in [1..m -> ScoreVals] :
                      \A i \in 1..m : \A j \in 1..m : i < j => sc[i] >= sc[j]}
    IN  {[i \in 1..m |-> [doc |-> store[p[i]], score |-> sc[i]]] :
            p \in orders, sc \in scores}

StoreOutcomes(store, k) ==
    {[ok |-> FALSE, results |-> <<>>]}
    \cup {[ok |-> TRUE, results |-> r] : r \in Ranked(store, k)}

\* knowledge_base.py:136-146: the provenance header, the score, the text
FormatPassage(doc, score) ==
    LET source == GetOr(doc.source, <<"U", "n", "k", "n", "o", "w", "n", " ", "s", "o", "u", "r", "c", "e">>)
        source_type == GetOr(doc.file_type, GetOr(doc.type, <<>>))
        title == GetOr(doc.title, <<>>)
    IN  [name |-> IF title # <<>> THEN title ELSE LastSegment(source),
         type |-> source_type,
         relevance |-> score,
         content |-> doc.content]

\* knowledge_base.py:135
Relevant_inclusive(score, threshold) == score >= threshold
Relevant(score, threshold) == score > threshold

RECURSIVE FormattedResults(_, _)
FormattedResults(results, threshold) ==
    IF results = <<>> THEN <<>>
    ELSE LET rest == FormattedResults(Tail(results), threshold)
         IN  IF Relevant(Head(results).score, threshold)
             THEN <<FormatPassage(Head(results).doc, Head(results).score)>> \o rest
             ELSE rest

NoInfo == [kind |-> "no_relevant_information", passages |-> <<>>]
ErrorInfo == [kind |-> "error_retrieving", passages |-> <<>>]

search_relevant_context_silent(outcome, threshold) ==
    LET formatted_results == FormattedResults(outcome.results, threshold)
    IN  IF formatted_results = <<>> THEN NoInfo
        ELSE [kind |-> "context", passages |-> formatted_results]

\* search_relevant_context, given what the store did
search_relevant_context(outcome, threshold) ==
    IF ~outcome.ok THEN ErrorInfo
    ELSE LET formatted_results == FormattedResults(outcome.results, threshold)
         IN  IF formatted_results = <<>> THEN NoInfo
             ELSE [kind |-> "context", passages |-> formatted_results]

RECURSIVE PassagesLen(_)
PassagesLen(ps) ==
    IF ps = <<>> THEN 0
    ELSE PassageOverhead + Len(Head(ps).name) + Len(Head(ps).type)
             + Len(Head(ps).content)
             + (IF Len(ps) > 1 THEN 2 + PassagesLen(Tail(ps)) ELSE 0)

\* len(kb_results.strip()): the returned text starts with a letter; strip drops
\* the newline that ends the last passage
StrippedLen(text) ==
    CASE text.kind = "no_relevant_information" -> NoInfoLen
      [] text.kind = "error_retrieving" -> ErrorInfoLen
      [] OTHER -> PassagesLen(text.passages) - 1

----------------------------------------------------------------------------
(* The paper registry and the paper search (arxiv_tools.py) *)

StoredAbstract == 500   \* arxiv_tools.py:56: characters of the abstract kept
ShownAbstract == 300    \* arxiv_tools.py:68: characters of the abstract shown

Min(a, b) == IF a < b THEN a ELSE b

\* ", ".join(names)
RECURSIVE JoinNames(_)
JoinNames(names) ==
    IF names = <<>> THEN <<>>
    ELSE IF Len(names) = 1 THEN Head(names)
    ELSE Head(names) \o <<",", " ">> \o JoinNames(Tail(names))

\* a paper as the search service returns it; the abstract by its length
ArxivPaper(entry_id, title, authors, pdf_url, summary) ==
    [entry_id |-> entry_id, title |-> title, authors |-> authors,
     pdf_url |-> pdf_url, summary |-> summary]

Paper_p1 == ArxivPaper(<<"h", "t", "t", "p", ":", "/", "/", "a", "r", "x", "i", "v", ".", "o", "r", "g", "/", "a", "b", "s", "/", "p", "1">>, "t1", <<<<"x">>, <<"y">>>>, "u1", 120)
Paper_p1v2 == ArxivPaper(<<"h", "t", "t", "p", ":", "/", "/", "a", "r", "x", "i", "v", ".", "o", "r", "g", "/", "a", "b", "s", "/", "p", "1">>, "t1 (revised)", <<<<"x">>>>, "u1", 800)
Paper_p2 == ArxivPaper(<<"h", "t", "t", "p", ":", "/", "/", "a", "r", "x", "i", "v", ".", "o", "r", "g", "/", "a", "b", "s", "/", "p", "2">>, "t2", <<<<"y">>>>, "u2", 800)

ArxivOutcomes ==
    {[ok |-> FALSE, results |-> <<>>]}
    \cup {[ok |-> TRUE, results |-> r] :
             r \in {<<>>, <<Paper_p1>>, <<Paper_p1v2, Paper_p2>>}}

PutPaper_only(papers, rec) == <<rec>>

\* paper_details[paper_id] = {...}: a re-saved id keeps its place
PutPaper(papers, rec) ==
    IF \E i \in 1..Len(papers) : papers[i].id = rec.id
    THEN [i \in 1..Len(papers) |-> IF papers[i].id = rec.id THEN rec ELSE papers[i]]
    ELSE Append(papers, rec)

\* save_paper_details: load (missing or unparsable: start from {}), set the
\* key, rewrite the file; every exception is caught and answered with False
save_paper_details(file, rec, w) ==
    IF file.state = "other" THEN file
    ELSE LET paper_details ==
                 IF file.state = "dict" THEN file.papers ELSE <<>>
         IN  CASE w = "ok" -> Registry("dict", PutPaper(paper_details, rec))
               [] w = "open_failed" -> file
               [] OTHER -> Registry("invalid", <<>>)

SaveAll_first(file, results, ws) ==
    IF results = <<>> THEN file
    ELSE LET paper == Head(results)
             rec == PaperRecord(LastSegment(paper.entry_id), paper.title,
                                JoinNames(paper.authors), paper.pdf_url,
                                Min(paper.summary, StoredAbstract))
         IN  save_paper_details(file, rec, Head(ws))

\* arxiv_tools.py:45-64: each paper found is saved under the id shown for it
RECURSIVE SaveAll(_, _, _)
SaveAll(file, results, ws) ==
    IF results = <<>> THEN file
    ELSE LET paper == Head(results)
             rec == PaperRecord(LastSegment(paper.entry_id), paper.title,
                                JoinNames(paper.authors), paper.pdf_url,
                                Min(paper.summary, StoredAbstract))
         IN  SaveAll(save_paper_details(file, rec, Head(ws)), Tail(results), Tail(ws))

\* arxiv_tools.py:27: the search terms are added unless the query names one
FocusAdded(query) ==
    ~\E term \in {W_bitcoin, W_blockchain, W_crypto} : Contains(Lower(query), term)

\* search_arxiv, given what the search service did and how the writes went
search_arxiv(query, file, outcome, ws) ==
    IF ~outcome.ok
    THEN [text |-> [kind |-> "arxiv_error"], registry |-> file]
    ELSE IF outcome.results = <<>>
    THEN [text |-> [kind |-> "arxiv_none"], registry |-> file]
    ELSE [text |-> [kind |-> "arxiv_results",
                    query |-> query, focus_added |-> FocusAdded(query),
                    papers |-> [i \in 1..Len(outcome.results) |->
                                   [id |-> LastSegment(outcome.results[i].entry_id),
                                    title |-> outcome.results[i].title,
                                    abstract |-> Min(outcome.results[i].summary,
                                                     ShownAbstract)]]],
          registry |-> SaveAll(file, outcome.results, ws)]

\* summarize_arxiv_paper as chat calls it (add_to_kb=True, a knowledge base, a
\* model).  It has no try around the registry lookup; KnowledgeBase defines no
\* add_document, so the call at line 220 raises AttributeError, caught at 233.
summarize_arxiv_paper(paper_id, file, answer) ==
    IF file.state \in {"missing", "invalid"}
    THEN [raised |-> FALSE, calls |-> <<>>, text |-> [kind |-> "no_paper_details"]]
    ELSE IF file.state = "other"
    THEN [raised |-> TRUE, calls |-> <<>>, text |-> [kind |-> "raised"]]
    ELSE IF ~\E i \in 1..Len(file.papers) : file.papers[i].id = paper_id
    THEN [raised |-> FALSE, calls |-> <<>>,
          text |-> [kind |-> "no_details_for_id", id |-> paper_id]]
    ELSE [raised |-> FALSE, calls |-> <<"generate">>,
          text |-> [kind |-> "summary", summary |-> answer,
                    kb |-> "error_adding"]]

----------------------------------------------------------------------------
(* query_perplexity (perplexity.py) *)

HttpOutcomes == {"200", "status_error", "exception"}
LogOutcomes == {"ok", "failed"}

\* the key check, the request, the search-log block, the formatted answer; the
\* whole body is inside one try
query_perplexity(query, key_set, http, logw, log) ==
    IF ~key_set
    THEN [calls |-> <<>>, text |-> [kind |-> "perplexity_no_key"], log |-> log]
    ELSE IF http = "exception"
    THEN [calls |-> <<"web_search">>,
          text |-> [kind |-> "perplexity_technical_issue"], log |-> log]
    ELSE IF http = "status_error"
    THEN [calls |-> <<"web_search">>,
          text |-> [kind |-> "perplexity_http_error"], log |-> log]
    ELSE IF logw = "failed"
    THEN [calls |-> <<"web_search">>,
          text |-> [kind |-> "perplexity_technical_issue"], log |-> log]
    ELSE [calls |-> <<"web_search">>,
          text |-> [kind |-> "perplexity_result", query |-> query],
          log |-> Append(log, query)]

----------------------------------------------------------------------------
(* PenelopeUI.chat (ui.py:189-259) *)

MaxHistory == 4       \* entries of the chat history explored

Route_caseSensitive(message) ==
    IF Strip(message) = <<>> THEN "blank"
    ELSE IF StartsWith(message, P_search_arxiv) THEN "search_arxiv"
    ELSE IF StartsWith(message, P_summarize_arxiv) THEN "summarize_arxiv"
    ELSE IF StartsWith(message, P_search_kb) THEN "search_kb"
    ELSE IF StartsWith(message, P_check_kb) THEN "check_kb"
    ELSE IF StartsWith(message, P_perplexity) THEN "perplexity"
    ELSE "default"

Route_anywhere(message) ==
    LET low == Lower(message)
    IN  IF Strip(message) = <<>> THEN "blank"
        ELSE IF Contains(low, P_search_arxiv) THEN "search_arxiv"
        ELSE IF Contains(low, P_summarize_arxiv) THEN "summarize_arxiv"
        ELSE IF Contains(low, P_search_kb) THEN "search_kb"
        ELSE IF Contains(low, P_check_kb) THEN "check_kb"
        ELSE IF Contains(low, P_perplexity) THEN "perplexity"
        ELSE "default"

\* the branch of chat an utterance takes, in the order of the elif chain
Route(message) ==
    LET low == Lower(message)
    IN  IF Strip(message) = <<>> THEN "blank"
        ELSE IF StartsWith(low, P_search_arxiv) THEN "search_arxiv"
        ELSE IF StartsWith(low, P_summarize_arxiv) THEN "summarize_arxiv"
        ELSE IF StartsWith(low, P_search_kb) THEN "search_kb"
        ELSE IF StartsWith(low, P_check_kb) THEN "check_kb"
        ELSE IF StartsWith(low, P_perplexity) THEN "perplexity"
        ELSE "default"

\* ui.py:235: kb_results and len(kb_results.strip()) > 0
HasContext(kb_results) == StrippedLen(kb_results) > 0

\* _get_kb_info: KnowledgeBase defines no get_stats, so line 451 raises
\* AttributeError, caught at line 482
_get_kb_info(detailed) == [kind |-> "kb_info_error", detailed |-> detailed]

Entry(role, content) == [role |-> role, content |-> content]

\* what the collaborators do during one call of chat
NoStore == [ok |-> FALSE, results |-> <<>>]
Env(store, answer, arxiv, ws, http, logw) ==
    [store |-> store, answer |-> answer, arxiv |-> arxiv, ws |-> ws,
     http |-> http, logw |-> logw]

\* the outcome of a flow: the assistant's text, the collaborator calls in
\* order, the retrieval result, the files as the flow leaves them
Flow(text, calls, kb_results, registry, log) ==
    [text |-> text, calls |-> calls, kb_results |-> kb_results,
     registry |-> registry, log |-> log, raised |-> FALSE, arg |-> <<>>]

\* the flows of chat, given the files and the store as they are
RunFlow(message, env, cfg, store, registry, log) ==
    LET flow == Route(message)
    IN  CASE flow = "search_arxiv" ->
               LET query == Strip(From(message, 13))
                   r == search_arxiv(query, registry, env.arxiv, env.ws)
               IN  [Flow(r.text, <<"arxiv">>, NoInfo, r.registry, log)
                       EXCEPT !.arg = query]
          [] flow = "summarize_arxiv" ->
               LET paper_id == Strip(From(message, 15))
                   r == summarize_arxiv_paper(paper_id, registry, env.answer)
               IN  [Flow(r.text, r.calls, NoInfo, registry, log)
                       EXCEPT !.raised = r.raised, !.arg = paper_id]
          [] flow = "search_kb" ->
               LET query == Strip(From(message, 10))
                   kb_results == search_relevant_context(env.store,
                                                         cfg.relevance_threshold)
               IN  [Flow([kind |-> "kb_search_results", query |-> query,
                          body |-> kb_results],
                         <<"kb_search">>, kb_results, registry, log)
                       EXCEPT !.arg = query]
          [] flow = "check_kb" ->
               LET detailed == Contains(Lower(message), W_detail)
                                   \/ Contains(Lower(message), W_full)
               IN  Flow(_get_kb_info(detailed), <<>>, NoInfo, registry, log)
          [] flow = "perplexity" ->
               LET query == Strip(From(message, 11))
                   r == query_perplexity(query, cfg.perplexity_key, env.http,
                                         env.logw, log)
               IN  [Flow(r.text, r.calls, NoInfo, registry, r.log)
                       EXCEPT !.arg = query]
          [] OTHER ->
               LET kb_results == search_relevant_context(env.store,
                                                         cfg.relevance_threshold)
               IN  IF HasContext(kb_results)
                   THEN [Flow([kind |-> "answer", answer |-> env.answer,
                               context |-> kb_results],
                              <<"kb_search", "generate">>, kb_results, registry, log)
                            EXCEPT !.arg = message]
                   ELSE LET r == query_perplexity(message, cfg.perplexity_key,
                                                  env.http, env.logw, log)
                        IN  [Flow(r.text, <<"kb_search">> \o r.calls, kb_results,
                                  registry, r.log)
                                EXCEPT !.arg = message]

chat_stripped(message, history, env, cfg, store, registry, log) ==
    IF Route(message) = "blank"
    THEN [history |-> history, input |-> <<>>, flow |-> "blank", raised |-> FALSE,
          out |-> Flow([kind |-> "none"], <<>>, NoInfo, registry, log)]
    ELSE LET out == RunFlow(message, env, cfg, store, registry, log)
             result == IF out.raised THEN [kind |-> "chat_error"] ELSE out.text
         IN  [history |-> history \o <<Entry("user", Strip(message)),
                                       Entry("assistant", result)>>,
              input |-> <<>>, flow |-> Route(message), raised |-> FALSE,
              out |-> out]

chat_uncaught(message, history, env, cfg, store, registry, log) ==
    IF Route(message) = "blank"
    THEN [history |-> history, input |-> <<>>, flow |-> "blank", raised |-> FALSE,
          out |-> Flow([kind |-> "none"], <<>>, NoInfo, registry, log)]
    ELSE LET out == RunFlow(message, env, cfg, store, registry, log)
         IN  IF out.raised
             THEN [history |-> history, input |-> message, flow |-> Route(message),
                   raised |-> TRUE, out |-> out]
             ELSE [history |-> history \o <<Entry("user", message),
                                            Entry("assistant", out.text)>>,
                   input |-> <<>>, flow |-> Route(message), raised |-> FALSE,
                   out |-> out]

\* chat: a blank utterance returns the history as it is; otherwise the flow's
\* text, or the text of the exception it raised (ui.py:255-259), follows the
\* utterance.  Every statement after the blank check is inside the try, so no
\* exception of a flow leaves chat.
chat(message, history, env, cfg, store, registry, log) ==
    IF Route(message) = "blank"
    THEN [history |-> history, input |-> <<>>, flow |-> "blank", raised |-> FALSE,
          out |-> Flow([kind |-> "none"], <<>>, NoInfo, registry, log)]
    ELSE LET out == RunFlow(message, env, cfg, store, registry, log)
             result == IF out.raised THEN [kind |-> "chat_error"] ELSE out.text
         IN  [history |-> history \o <<Entry("user", message),
                                       Entry("assistant", result)>>,
              input |-> <<>>, flow |-> Route(message), raised |-> FALSE,
              out |-> out]

----------------------------------------------------------------------------
(* ConfigManager._load_config (config.py:86-139) *)

\* a JSON value of the config file: an object is a function from its keys
JV(kind, map, items, v) == [kind |-> kind, map |-> map, items |-> items, v |-> v]
Obj(f) == JV("object", f, <<>>, "")
Arr(items) == JV("array", <<>>, items, "")
Str(v) == JV("string", <<>>, <<>>, v)
Num(v) == JV("number", <<>>, <<>>, v)
Null == JV("null", <<>>, <<>>, "")

\* config.py:89-111
DefaultConfig ==
    [api_keys |-> Obj([anthropic |-> Str(""), elevenlabs |-> Str(""),
                       perplexity |-> Str(""), openai |-> Str("")]),
     models |-> Obj([claude |-> Str("claude-3-7-sonnet-20250219"),
                     temperature |-> Num("0.7")]),
     knowledge_base |-> Obj([chunk_size |-> Num("1000"), chunk_overlap |-> Num("200"),
                             relevance_threshold |-> Num("0.2"),
                             persist_dir |-> Str("./chroma_db")]),
     files |-> Obj([memory_file |-> Str("conversation_history.json"),
                    paper_details_file |-> Str("paper_details.json"),
                    search_log_file |-> Str("search_log.txt")])]

\* _update_nested_dict(d, u) on the keys of two objects
RECURSIVE _update_nested_dict(_, _)
_update_nested_dict(d, u) ==
    [k \in DOMAIN d \cup DOMAIN u |->
        IF k \notin DOMAIN u THEN d[k]
        ELSE IF u[k].kind = "object" /\ k \in DOMAIN d /\ d[k].kind = "object"
        THEN Obj(_update_nested_dict(d[k].map, u[k].map))
        ELSE u[k]]

\* the config file: absent, not JSON, or a JSON value
ConfigFile(state, value) == [state |-> state, value |-> value]
AbsentConfig == ConfigFile("absent", Null)
InvalidConfig == ConfigFile("invalid", Null)

\* the value os.environ holds for a service's variable
EnvKey == Str("key-from-environment")

\* config.py:124-128 for an api_keys section that is an object
EnvOverride(keys, env) ==
    [k \in DOMAIN keys |-> IF k \in env THEN EnvKey ELSE keys[k]]

\* _load_config: the defaults, updated from the file when it holds a JSON
\* object (json.load or the update raising is caught at line 120 before
\* anything was changed), then the environment loop over config["api_keys"],
\* which is outside the try: iterating null or a number raises TypeError, and
\* so does the assignment at line 127 into a list
_load_config(file, env) ==
    LET loaded == IF file.state = "json" /\ file.value.kind = "object"
                  THEN _update_nested_dict(DefaultConfig, file.value.map)
                  ELSE DefaultConfig
        api_keys == loaded["api_keys"]
    IN  CASE api_keys.kind = "object" ->
               [state |-> "loaded",
                config |-> [loaded EXCEPT !["api_keys"] =
                                            Obj(EnvOverride(api_keys.map, env))]]
          [] api_keys.kind = "string" -> [state |-> "loaded", config |-> loaded]
          [] api_keys.kind = "array" ->
               IF \E i \in 1..Len(api_keys.items) : api_keys.items[i] \in env
               THEN [state |-> "raised", config |-> DefaultConfig]
               ELSE [state |-> "loaded", config |-> loaded]
          [] OTHER -> [state |-> "raised", config |-> DefaultConfig]

\* the services of the documented keys whose variable may be set
Services == {"openai", "perplexity"}

\* config files: absent, unparsable, a JSON array, and partial documents
ApiKeySections ==
    {Obj(<<>>), Obj([perplexity |-> Str("key-from-file")]),
     Obj([openai |-> Str("key-from-file"), mistral |-> Str("key-from-file")]),
     Null, Arr(<<"openai">>), Str("x")}
KbSections == {Obj([relevance_threshold |-> Num("0.5")]), Num("5")}
ModelSections == {Obj([temperature |-> Num("0.1")])}

Documents ==
    {a @@ k @@ m :
        a \in {<<>>} \cup {[api_keys |-> x] : x \in ApiKeySections},
        k \in {<<>>} \cup {[knowledge_base |-> x] : x \in KbSections},
        m \in {<<>>} \cup {[models |-> x] : x \in ModelSections}}

ConfigFiles ==
    {AbsentConfig, InvalidConfig, ConfigFile("json", Arr(<<>>))}
    \cup {ConfigFile("json", Obj(d)) : d \in Documents}

\* get_kb_settings()["relevance_threshold"] in hundredths, and whether
\* get_api_key("perplexity") is non-empty
Hundredths(n) == IF n = Num("0.5") THEN 50 ELSE DefaultThreshold
View(cfg) ==
    [relevance_threshold |-> Hundredths(cfg["knowledge_base"].map["relevance_threshold"]),
     perplexity_key |-> cfg["api_keys"].map["perplexity"] # Str("")]

\* a start-up that yields the settings c: the file and the environment
StartUp(c) ==
    [file |-> IF c.relevance_threshold = DefaultThreshold THEN AbsentConfig
              ELSE ConfigFile("json",
                       Obj([knowledge_base |-> Obj([relevance_threshold |-> Num("0.5")])])),
     env |-> IF c.perplexity_key THEN {"anthropic", "openai", "perplexity"}
             ELSE {"anthropic", "openai"}]

\* the configuration is loaded before the other components are built
Configured ==
    /\ config_file = StartUp(config).file
    /\ environ = StartUp(config).env
    /\ manager = _load_config(config_file, environ)

----------------------------------------------------------------------------
(* The chat tab as actions *)

NoChat ==
    [utterance |-> <<>>, flow |-> "none", calls |-> <<>>, kb_results |-> NoInfo,
     store |-> NoStore, startHistory |-> <<>>, caught |-> FALSE,
     text |-> [kind |-> "none"], raised |-> FALSE, input |-> <<>>,
     startRegistry |-> Registry("missing", <<>>), startDb |-> <<>>,
     arxiv |-> [ok |-> FALSE, results |-> <<>>], ws |-> <<>>, paper_id |-> <<>>,
     arg |-> <<>>, key |-> FALSE, http |-> "none", logw |-> "none",
     startLog |-> <<>>, spoken |-> [kind |-> "none"], audio |-> "none",
     prev |-> "none", saved |-> <<>>, loaded |-> <<>>, count |-> 0,
     doc |-> [file_path |-> <<>>, file_type |-> <<>>, extraction |-> "none",
              chunks |-> 0, add |-> "none", persist |-> "none"],
     result |-> [ok |-> FALSE, message |-> [kind |-> "none", count |-> 0]]]

\* the configurations a session runs under: the default threshold or a
\* stricter one, and the default one without a web-search key
Configs ==
    {[relevance_threshold |-> t, perplexity_key |-> TRUE] : t \in Thresholds}
    \cup {[relevance_threshold |-> DefaultThreshold, perplexity_key |-> FALSE]}

\* the stores a session starts from: empty, one chunk, two chunks
Stores == {<<>>, <<Chunk_txt>>, <<Chunk_txt, Chunk_paper>>}

\* the memory as __init__ leaves it when no log file exists
MemIdle ==
    /\ memory_file = MissingFile
    /\ constructed = "ok"
    /\ messages = EmptyList
    /\ chat_memory = <<>>
    /\ thread_id = 1
    /\ summary_due = FALSE
    /\ last = [NoCall EXCEPT !.op = "init"]

InitChat ==
    /\ MemIdle
    /\ paper_details_file \in InitRegistries \cup {Registry("other", <<>>)}
    /\ config \in Configs
    /\ Configured
    /\ db \in {s \in Stores : Len(s) <= MaxDocs}
    /\ search_log = <<>>
    /\ chatbot = <<>>
    /\ msg = <<>>
    /\ ui_last = NoChat

\* the user types an utterance into the empty textbox
Type ==
    /\ msg = <<>>
    /\ Len(chatbot) + 2 <= MaxHistory
    /\ msg' \in Utterances
    /\ UNCHANGED <<cfg_vars, config, db, search_log, chatbot, ui_last>>
    /\ UNCHANGED mem_vars

\* the outcomes drawn for the collaborators a flow calls
StoreChoices(flow) ==
    CASE flow = "search_kb" -> StoreOutcomes(db, 5)
      [] flow = "default" -> StoreOutcomes(db, 3)
      [] OTHER -> {NoStore}

ArxivChoices(flow) ==
    IF flow = "search_arxiv" THEN ArxivOutcomes
    ELSE {[ok |-> FALSE, results |-> <<>>]}

WriteChoices(flow) ==
    IF flow = "search_arxiv" THEN [1..2 -> WriteOutcomes]
    ELSE {<<"ok", "ok">>}

HttpChoices(flow) ==
    IF flow \in {"perplexity", "default"} THEN HttpOutcomes ELSE {"exception"}

LogChoices(flow) ==
    IF flow \in {"perplexity", "default"} THEN LogOutcomes ELSE {"ok"}

MemoryAfterChat_recorded(st, message, result) ==
    IF \E i \in 1..Len(result.out.calls) : result.out.calls[i] = "generate"
    THEN add_message(add_message(st, message, TRUE, "ok"), result.out.text, FALSE, "ok")
    ELSE st

\* what chat does to the conversation memory: its generation call goes to
\* memory.claude_model.get_response (ui.py:247), not to memory.get_response,
\* and no flow calls add_message or reset
MemoryAfterChat(st, message, result) == st

\* Send (or Enter): chat(msg, chatbot) -> chatbot, msg
Chat ==
    /\ msg # <<>>
    /\ \E flow \in {Route(msg)} :
       \E store \in StoreChoices(flow), answer \in Answers,
          arxiv \in ArxivChoices(flow), ws \in WriteChoices(flow),
          http \in HttpChoices(flow), logw \in LogChoices(flow) :
       \E r \in {chat(msg, chatbot, Env(store, answer, arxiv, ws, http, logw),
                      config, db, paper_details_file, search_log)} :
          /\ chatbot' = r.history
          /\ msg' = r.input
          /\ paper_details_file' = r.out.registry
          /\ search_log' = r.out.log
          /\ ui_last' = [NoChat EXCEPT
                             !.utterance = msg, !.flow = r.flow,
                             !.calls = r.out.calls,
                             !.kb_results = r.out.kb_results, !.store = store,
                             !.startHistory = chatbot, !.caught = r.out.raised,
                             !.text = r.out.text, !.raised = r.raised,
                             !.input = r.input, !.arg = r.out.arg]
          /\ \E st \in {MemoryAfterChat(MemState, msg, r)} :
                 /\ messages' = st.messages
                 /\ chat_memory' = st.chat
                 /\ memory_file' = st.file
                 /\ summary_due' = st.due
    /\ UNCHANGED <<cfg_vars, config, db>>
    /\ UNCHANGED <<constructed, thread_id, last>>

NextChat == Type \/ Chat

----------------------------------------------------------------------------
(* The memory's operations as actions *)

InitMem ==
    /\ memory_file \in InitFiles
    /\ paper_details_file \in InitRegistries
    /\ constructed = "none"
    /\ messages = EmptyList
    /\ chat_memory = <<>>
    /\ thread_id = 0
    /\ summary_due = FALSE
    /\ last = NoCall
    /\ config = [relevance_threshold |-> DefaultThreshold, perplexity_key |-> TRUE]
    /\ Configured
    /\ db = <<>>
    /\ search_log = <<>>
    /\ chatbot = <<>>
    /\ msg = <<>>
    /\ ui_last = NoChat

Started(op) ==
    [NoCall EXCEPT !.op = op, !.prevOp = last.op, !.startLog = messages,
                   !.startChat = chat_memory, !.startThread = thread_id,
                   !.startRegistry = paper_details_file,
                   !.dueAtStart = summary_due]

\* PenelopeMemory.__init__: a new token, an empty log, a new summarizer, then
\* _load_messages.  Also a restart of the program on the files the last run
\* left.  A loaded log of SummaryEvery messages or more has passed a boundary
\* and the new summarizer has not been asked yet.
Construct ==
    /\ thread_id < MaxSessions
    /\ \E r \in {_load_messages(memory_file)} :
           /\ constructed' = IF r.raised THEN "raised" ELSE "ok"
           /\ messages' = IF r.raised THEN EmptyList ELSE r.messages
           /\ chat_memory' = r.chat
           /\ summary_due' = (~r.raised /\ PyLen(r.messages) >= SummaryEvery)
           /\ last' = [Started("init") EXCEPT !.raised = r.raised]
    /\ thread_id' = thread_id + 1
    /\ UNCHANGED <<memory_file, paper_details_file>>
    /\ UNCHANGED ui_vars

\* load_memory_variables is called at line 124 only when NeedsSummary, at line
\* 139 only when UsesSummary: an outcome is drawn only for a call that is made.
\* The value returned at line 124 is logged and overwritten at line 139, so one
\* value stands for it.
OutcomesIf(called) == IF called THEN SumOutcomes ELSE {"s0"}

GetResponse ==
    /\ constructed = "ok"
    /\ PyLen(messages) + 2 <= MaxLen
    /\ Len(chat_memory) + 2 <= MaxLen
    /\ \E query \in Queries, answer \in Answers, w1, w2 \in WriteOutcomes :
       \E o1 \in OutcomesIf(NeedsSummary(PyLen(messages))) \ {"s1"},
          o2 \in OutcomesIf(UsesSummary(PyLen(messages))) :
       \E r \in {get_response(MemState, query, o1, o2, answer, w1, w2)} :
          /\ messages' = r.st.messages
          /\ chat_memory' = r.st.chat
          /\ memory_file' = r.st.file
          /\ summary_due' = r.st.due
          /\ last' = [Started("get_response") EXCEPT
                          !.query = query, !.answer = r.answer,
                          !.summary = r.summary, !.calls = r.calls,
                          !.history = r.history, !.writes = r.writes,
                          !.dueAtGen = r.dueAtGen]
    /\ UNCHANGED <<paper_details_file, constructed, thread_id>>
    /\ UNCHANGED ui_vars

\* uuid.uuid4(): a token never issued before
NewThreadId(t) == t + 1

Reset ==
    /\ constructed = "ok"
    /\ thread_id < MaxSessions
    /\ \E w \in WriteOutcomes :
          \E st \in {reset(MemState, w)} :
              /\ messages' = st.messages
              /\ chat_memory' = st.chat
              /\ memory_file' = st.file
              /\ summary_due' = st.due
              /\ last' = [Started("reset") EXCEPT !.writes = <<w>>]
    /\ thread_id' = NewThreadId(thread_id)
    /\ UNCHANGED <<paper_details_file, constructed>>
    /\ UNCHANGED ui_vars

NextMem == Construct \/ GetResponse \/ Reset

----------------------------------------------------------------------------
(* The arXiv tab and the Clear button (ui.py:159-162, 486-520) *)

\* what the user enters in the tab's two textboxes
ArxivQueries == {<<"l", "n">>, <<" ">>}
PaperIds == {Id_p1, Id_p2, <<" ">>}

\* _search_arxiv_wrapper: a blank query is answered without a search
_search_arxiv_wrapper(query, file, outcome, ws) ==
    IF Strip(query) = <<>>
    THEN [text |-> [kind |-> "enter_query"], registry |-> file, calls |-> <<>>]
    ELSE LET r == search_arxiv(query, file, outcome, ws)
         IN  [text |-> r.text, registry |-> r.registry, calls |-> <<"arxiv">>]

\* _summarize_arxiv_wrapper: a blank id is answered at once; an exception of
\* summarize_arxiv_paper is caught at line 518
_summarize_arxiv_wrapper(paper_id, file, answer) ==
    IF Strip(paper_id) = <<>>
    THEN [text |-> [kind |-> "enter_paper_id"], caught |-> FALSE, calls |-> <<>>]
    ELSE LET r == summarize_arxiv_paper(paper_id, file, answer)
         IN  [text |-> IF r.raised THEN [kind |-> "error_summarizing"] ELSE r.text,
              caught |-> r.raised, calls |-> r.calls]

\* the program after start-up, on the registry file an earlier run left
InitPapers ==
    /\ MemIdle
    /\ paper_details_file \in
           InitRegistries \cup {Registry("other", <<>>), Registry("invalid", <<>>)}
    /\ config = [relevance_threshold |-> DefaultThreshold, perplexity_key |-> TRUE]
    /\ Configured
    /\ db \in {s \in {<<>>, <<Chunk_txt>>} : Len(s) <= MaxDocs}
    /\ search_log = <<>>
    /\ chatbot = <<>>
    /\ msg = <<>>
    /\ ui_last = NoChat

\* the writes a search makes: one per paper found
WritesFor(outcome) == [1..Len(outcome.results) -> WriteOutcomes]

\* "Search arXiv" button
SearchArxiv ==
    /\ \E query \in ArxivQueries, outcome \in ArxivOutcomes :
       \E ws \in (IF Strip(query) = <<>> THEN {<<>>} ELSE WritesFor(outcome)) :
       \E r \in {_search_arxiv_wrapper(query, paper_details_file, outcome, ws)} :
          /\ paper_details_file' = r.registry
          /\ ui_last' = [NoChat EXCEPT
                             !.flow = "arxiv_tab_search", !.utterance = query,
                             !.calls = r.calls, !.text = r.text,
                             !.startRegistry = paper_details_file,
                             !.startDb = db,
                             !.arxiv = IF r.calls = <<>> THEN NoChat.arxiv ELSE outcome,
                             !.ws = ws]
    /\ UNCHANGED <<cfg_vars, config, db, search_log, chatbot, msg>>
    /\ UNCHANGED mem_vars_but_registry

\* "Summarize" button: add_to_kb=True, the knowledge base and the model are
\* passed.  The store is left as it was: the add at arxiv_tools.py:220 raises.
SummarizePaper ==
    /\ \E paper_id \in PaperIds, answer \in Answers :
       \E r \in {_summarize_arxiv_wrapper(paper_id, paper_details_file, answer)} :
          ui_last' = [NoChat EXCEPT
                         !.flow = "arxiv_tab_summarize", !.paper_id = paper_id,
                         !.calls = r.calls, !.text = r.text,
                         !.caught = r.caught,
                         !.startRegistry = paper_details_file,
                         !.startDb = db]
    /\ UNCHANGED <<cfg_vars, config, db, search_log, chatbot, msg>>
    /\ UNCHANGED mem_vars

\* "Clear Chat" button: clear_chat resets the memory and empties the chat
ClearChat ==
    /\ thread_id < MaxSessions
    /\ \E w \in WriteOutcomes :
          \E st \in {reset(MemState, w)} :
              /\ messages' = st.messages
              /\ chat_memory' = st.chat
              /\ memory_file' = st.file
              /\ summary_due' = st.due
              /\ last' = [Started("reset") EXCEPT !.writes = <<w>>]
    /\ thread_id' = NewThreadId(thread_id)
    /\ chatbot' = <<>>
    /\ msg' = <<>>
    /\ ui_last' = [NoChat EXCEPT !.flow = "clear",
                                 !.startRegistry = paper_details_file,
                                 !.startDb = db]
    /\ UNCHANGED <<paper_details_file, constructed, cfg_vars, config, db, search_log>>

NextPapers == SearchArxiv \/ SummarizePaper \/ ClearChat

----------------------------------------------------------------------------
(* KnowledgeBase.process_document and the Knowledge Base tab *)

T_pdf == <<"p", "d", "f">>
T_txt == <<"t", "x", "t">>
T_docx == <<"d", "o", "c", "x">>
T_md == <<"m", "d">>

\* the declared types a caller passes
FileTypes == {T_pdf, T_txt, T_docx, T_md}

\* the path of an uploaded file of a type
PathOf(file_type) == <<"/", "u", "p", "/", "f", ".">> \o file_type

\* what reading the file yields for a type the code reads: text, the empty
\* string, or a failure of the reader
Extractions == {"text", "empty", "failed"}
AddOutcomes == {"ok", "failed"}
PersistOutcomes == {"ok", "failed"}

\* extract_text: None for a type it does not know and for a reader that
\* raised; the reader's text otherwise
extract_text(file_type, extraction) ==
    IF file_type = T_pdf \/ file_type = T_txt \/ file_type = T_docx
    THEN (IF extraction = "failed" THEN "None" ELSE extraction)
    ELSE "None"

\* text_splitter.create_documents: n chunks, each with the document's metadata
RECURSIVE MakeChunks(_, _, _)
MakeChunks(file_path, file_type, n) ==
    IF n = 0 THEN <<>>
    ELSE Append(MakeChunks(file_path, file_type, n - 1),
                Chunk(<<"c", "h", "u", "n", "k">>, file_path, file_type, NoText, NoText))

KbResult(ok, kind, count, store) ==
    [ok |-> ok, message |-> [kind |-> kind, count |-> count], db |-> store]

process_document_persistFatal(store, file_path, file_type, extraction, n, add, persist) ==
    LET text == extract_text(file_type, extraction)
        docs == MakeChunks(file_path, file_type, n)
    IN  IF text = "None" \/ text = "empty"
        THEN KbResult(FALSE, "failed_to_extract", 0, store)
        ELSE IF add = "failed"
        THEN KbResult(FALSE, "error_processing", 0, store)
        ELSE IF persist = "failed"
        THEN KbResult(FALSE, "error_processing", 0, store \o docs)
        ELSE KbResult(TRUE, "added_chunks", Len(docs), store \o docs)

\* process_document: extraction, chunking, the add to the store, the persist
\* (whose failure is logged and ignored); any other exception is answered with
\* (False, "Error processing document: ...")
process_document(store, file_path, file_type, extraction, n, add, persist) ==
    LET text == extract_text(file_type, extraction)
        docs == MakeChunks(file_path, file_type, n)
    IN  IF text = "None" \/ text = "empty"
        THEN KbResult(FALSE, "failed_to_extract", 0, store)
        ELSE IF add = "failed"
        THEN KbResult(FALSE, "error_processing", 0, store)
        ELSE KbResult(TRUE, "added_chunks", Len(docs), store \o docs)

InitKb ==
    /\ MemIdle
    /\ paper_details_file = Registry("missing", <<>>)
    /\ config \in {c \in Configs : c.perplexity_key}
    /\ Configured
    /\ db \in {s \in {<<>>, <<Chunk_paper>>} : Len(s) <= MaxDocs}
    /\ search_log = <<>>
    /\ chatbot = <<>>
    /\ msg = <<>>
    /\ ui_last = NoChat

\* a call of process_document; the outcomes of the steps it does not reach are
\* not drawn
ProcessDocument ==
    /\ \E file_type \in FileTypes :
       \E extraction \in (IF file_type = T_md THEN {"failed"} ELSE Extractions) :
       \E n \in (IF extraction = "text" THEN 1..2 ELSE {0}),
          add \in (IF extraction = "text" THEN AddOutcomes ELSE {"none"}) :
       \E persist \in (IF add = "ok" THEN PersistOutcomes ELSE {"none"}) :
       \E r \in {process_document(db, PathOf(file_type), file_type, extraction,
                                  n, add, persist)} :
          /\ Len(r.db) <= MaxDocs
          /\ db' = r.db
          /\ ui_last' = [NoChat EXCEPT
                             !.flow = "process_document", !.startDb = db,
                             !.doc = [file_path |-> PathOf(file_type),
                                      file_type |-> file_type,
                                      extraction |-> extraction, chunks |-> n,
                                      add |-> add, persist |-> persist],
                             !.result = [ok |-> r.ok, message |-> r.message]]
    /\ UNCHANGED <<cfg_vars, config, search_log, chatbot, msg>>
    /\ UNCHANGED mem_vars

\* a call of search_relevant_context (top_k = 5); the record keeps the last
\* ingestion of the session
SearchKb ==
    /\ \E outcome \in StoreOutcomes(db, 5) :
       \E r \in {search_relevant_context(outcome, config.relevance_threshold)} :
          ui_last' = [NoChat EXCEPT
                         !.flow = "kb_search", !.startDb = db,
                         !.calls = <<"kb_search">>, !.store = outcome,
                         !.kb_results = r, !.doc = ui_last.doc,
                         !.result = ui_last.result]
    /\ UNCHANGED <<cfg_vars, config, db, search_log, chatbot, msg>>
    /\ UNCHANGED mem_vars

NextKb == ProcessDocument \/ SearchKb

----------------------------------------------------------------------------
(* Start-up: ConfigManager.__init__ (config.py:82-84) *)

InitConfig ==
    /\ memory_file = MissingFile
    /\ constructed = "none"
    /\ messages = EmptyList
    /\ chat_memory = <<>>
    /\ thread_id = 0
    /\ summary_due = FALSE
    /\ last = NoCall
    /\ paper_details_file = Registry("missing", <<>>)
    /\ config_file \in ConfigFiles
    /\ environ \in SUBSET Services
    /\ manager = [state |-> "none", config |-> DefaultConfig]
    /\ config = View(DefaultConfig)
    /\ db = <<>>
    /\ search_log = <<>>
    /\ chatbot = <<>>
    /\ msg = <<>>
    /\ ui_last = NoChat

\* ConfigManager(): self.config = self._load_config(); the settings the other
\* components read follow when the sections they read are objects
LoadConfig ==
    /\ manager.state = "none"
    /\ manager' = _load_config(config_file, environ)
    /\ config' = IF manager'.state = "loaded"
                    /\ manager'.config["knowledge_base"].kind = "object"
                    /\ manager'.config["api_keys"].kind = "object"
                    /\ "perplexity" \in DOMAIN manager'.config["api_keys"].map
                 THEN View(manager'.config) ELSE config
    /\ UNCHANGED <<config_file, environ, db, search_log, chatbot, msg, ui_last>>
    /\ UNCHANGED mem_vars

NextConfig == LoadConfig

----------------------------------------------------------------------------
(* The web search called on its own (perplexity.py:12-69) *)

MaxLog == 3           \* blocks of the search log explored

\* the questions sent to the web search
WebQueries == {<<"l", "n">>, <<"k", "b">>, <<"a", "i">>}

\* the program after start-up, with or without a web-search key
InitWeb ==
    /\ MemIdle
    /\ paper_details_file = Registry("missing", <<>>)
    /\ config \in Configs
    /\ Configured
    /\ db = <<>>
    /\ search_log = <<>>
    /\ chatbot = <<>>
    /\ msg = <<>>
    /\ ui_last = NoChat

\* query_perplexity(query, config_manager): the request's outcome and the
\* outcome of opening and writing the search log are drawn
QueryPerplexity ==
    /\ Len(search_log) < MaxLog
    /\ \E query \in WebQueries, http \in HttpOutcomes, logw \in LogOutcomes :
       \E r \in {query_perplexity(query, config.perplexity_key, http, logw,
                                  search_log)} :
          /\ search_log' = r.log
          /\ ui_last' = [NoChat EXCEPT
                             !.flow = "query_perplexity", !.utterance = query,
                             !.calls = r.calls, !.text = r.text,
                             !.key = config.perplexity_key,
                             !.http = IF r.calls = <<>> THEN "none" ELSE http,
                             !.logw = IF r.calls # <<>> /\ http = "200"
                                      THEN logw ELSE "none",
                             !.startLog = search_log]
    /\ UNCHANGED <<cfg_vars, config, db, chatbot, msg>>
    /\ UNCHANGED mem_vars

NextWeb == QueryPerplexity

----------------------------------------------------------------------------
(* ClaudeModel.get_response (models.py:32-67) *)

MaxTurns == 7         \* longest history handed to the model

HistoryWindow == 6    \* models.py:41: history[-6:]

NoContext == "<none>" \* context=None

HumanMessage(c) == [type |-> "human", content |-> c]
AIMessage(c) == [type |-> "ai", content |-> c]

\* models.py:41: history[-6:]
Recent_all(history) == history
Recent(history) ==
    IF Len(history) <= HistoryWindow THEN history
    ELSE SubSeq(history, Len(history) - HistoryWindow + 1, Len(history))

\* models.py:41-45: user entries become human messages, assistant entries AI
\* messages, entries of another role are passed over
RECURSIVE Converted(_)
Converted(s) ==
    IF s = <<>> THEN <<>>
    ELSE IF Head(s).role = "user"
         THEN <<HumanMessage(Head(s).content)>> \o Converted(Tail(s))
         ELSE IF Head(s).role = "assistant"
              THEN <<AIMessage(Head(s).content)>> \o Converted(Tail(s))
              ELSE Converted(Tail(s))

\* models.py:48-51: None and "" are both false
Augmented(message, context) ==
    IF context \in {NoContext, ""} THEN message
    ELSE message \o "\n\n" \o context

\* models.py:37-54: the list handed to self.model.invoke
ClaudeRequest(message, history, context) ==
    Converted(Recent(history)) \o <<HumanMessage(Augmented(message, context))>>

LlmOutcomes == {"answer", "raise"}
ModelError == "I encountered an error communicating with my language model"

\* the whole method: an exception of invoke is caught and answered with a text
claude_get_response(message, history, context, llm) ==
    [sent |-> ClaudeRequest(message, history, context),
     answer |-> IF llm = "raise" THEN ModelError ELSE "a1"]

\* the histories handed over: the i-th entry holds the content "c<i>"
Roles == {"user", "assistant", "system"}
Histories ==
    UNION {{[i \in 1..n |-> Msg(r[i], "c" \o ToString(i))] : r \in [1..n -> Roles]}
           : n \in 0..MaxTurns}
Contexts == {NoContext, "", "ctx"}

\* a model constructed and about to be called with a message, a history and
\* a context
InitModel ==
    /\ memory_file = MissingFile
    /\ constructed = "ok"
    /\ messages = EmptyList
    /\ chat_memory = <<>>
    /\ thread_id = 1
    /\ summary_due = FALSE
    /\ \E h \in Histories, c \in Contexts, q \in Queries :
           last = [NoCall EXCEPT !.op = "init", !.history = JList(h),
                                 !.query = q, !.context = c]
    /\ paper_details_file = Registry("missing", <<>>)
    /\ config = [relevance_threshold |-> DefaultThreshold, perplexity_key |-> TRUE]
    /\ Configured
    /\ db = <<>>
    /\ search_log = <<>>
    /\ chatbot = <<>>
    /\ msg = <<>>
    /\ ui_last = NoChat

\* claude_model.get_response(message, history, context)
ClaudeGetResponse ==
    /\ last.op = "init"
    /\ \E llm \in LlmOutcomes :
       \E r \in {claude_get_response(last.query, last.history.items,
                                     last.context, llm)} :
          last' = [last EXCEPT !.op = "claude_get_response", !.prevOp = "init",
                               !.sent = r.sent, !.answer = r.answer,
                               !.llm = llm, !.calls = <<"generate">>]
    /\ UNCHANGED <<memory_file, paper_details_file, constructed, messages,
                   chat_memory, thread_id, summary_due>>
    /\ UNCHANGED ui_vars

NextModel == ClaudeGetResponse

----------------------------------------------------------------------------
(* speak_last_response (ui.py:262-283) *)

\* the keys of a history entry in the order chat builds it (ui.py:198):
\* iterating or unpacking a dict yields its keys
EntryKeys(entry) == <<"role", "content">>

\* a text that is the name of a dict key, as opposed to an entry's content
KeyText(k) == [kind |-> "dict_key", name |-> k]
Nothing == [kind |-> "none"]

\* ui.py:269-272: "for user_msg, assistant_msg in reversed(history)" unpacks
\* each entry, a dict of two keys, into its keys; the second one is a
\* non-empty string, so the loop stops at the first entry it visits
RECURSIVE LastResponse(_)
LastResponse(history) ==
    IF history = <<>> THEN Nothing
    ELSE LET pair == EntryKeys(history[Len(history)])
             assistant_msg == pair[2]
         IN  IF assistant_msg # "" THEN KeyText(assistant_msg)
             ELSE LastResponse(SubSeq(history, 1, Len(history) - 1))

SpeechOutcomes == {"audio_file", "none"}

\* the whole handler; tts is what generate_speech returns (None when the key is
\* missing or the synthesis fails)
speak_last_response(history, tts) ==
    IF history = <<>>
    THEN [audio |-> "none", spoken |-> Nothing, calls |-> <<>>]
    ELSE LET last_response == LastResponse(history)
         IN  IF last_response = Nothing
             THEN [audio |-> "none", spoken |-> Nothing, calls |-> <<>>]
             ELSE [audio |-> tts, spoken |-> last_response,
                   calls |-> <<"generate_speech">>]

\* the histories chat leaves: pairs of a user entry and an assistant entry
SpokenUtterances == {<<"h", "i">>, <<"c", "h", "e", "c", "k", " ", "k", "b">>}
SpokenTexts ==
    {[kind |-> "answer", answer |-> "a1"], [kind |-> "chat_error"],
     [kind |-> "perplexity_no_key"], [kind |-> "perplexity_technical_issue"]}
Turns == {<<Entry("user", u), Entry("assistant", t)>> :
              u \in SpokenUtterances, t \in SpokenTexts}
VoiceHistories ==
    {<<>>} \cup Turns \cup {a \o b : a \in Turns, b \in Turns}

InitVoice ==
    /\ MemIdle
    /\ paper_details_file = Registry("missing", <<>>)
    /\ config = [relevance_threshold |-> DefaultThreshold, perplexity_key |-> TRUE]
    /\ Configured
    /\ db = <<>>
    /\ search_log = <<>>
    /\ chatbot \in {h \in VoiceHistories : Len(h) <= MaxHistory}
    /\ msg = <<>>
    /\ ui_last = NoChat

\* "Listen to Response" button: speak_last_response(chatbot) -> audio_output
SpeakLastResponse ==
    /\ \E tts \in SpeechOutcomes :
       \E r \in {speak_last_response(chatbot, tts)} :
          ui_last' = [NoChat EXCEPT !.flow = "speak", !.startHistory = chatbot,
                                    !.calls = r.calls, !.spoken = r.spoken,
                                    !.audio = r.audio]
    /\ UNCHANGED <<cfg_vars, config, db, search_log, chatbot, msg>>
    /\ UNCHANGED mem_vars

NextVoice == SpeakLastResponse

----------------------------------------------------------------------------
(* The files as bytes: json.dump / json.load (memory.py:44-59, 108-115;     *)
(* arxiv_tools.py:104-166)                                                  *)

MaxSaved == 2         \* messages appended, and papers saved, in one run

\* characters; a name stands for one code point
Quote == "\""
Backslash == "\\"
Newline == "\n"
EAcute == "e-acute"           \* U+00E9, two bytes in UTF-8
Surrogate == "lone-surrogate" \* U+D800, a str may hold it, UTF-8 has no bytes for it

\* Python values that json handles, in one shape: kind, chars (of a string, a
\* number, a key), items (of a list; the key-value pairs of a dict, in
\* insertion order; the value of a pair)
JString(chars) == [kind |-> "string", chars |-> chars, items |-> <<>>]
JNumber(chars) == [kind |-> "number", chars |-> chars, items |-> <<>>]
JNull == [kind |-> "null", chars |-> <<>>, items |-> <<>>]
JArray(items) == [kind |-> "array", chars |-> <<>>, items |-> items]
JPair(key, value) == [kind |-> "pair", chars |-> key, items |-> <<value>>]
JObject(pairs) == [kind |-> "object", chars |-> <<>>, items |-> pairs]

\* d[key] = value: a key already present keeps its place
PutKey(pairs, key, value) ==
    IF \E i \in 1..Len(pairs) : pairs[i].chars = key
    THEN [i \in 1..Len(pairs) |->
             IF pairs[i].chars = key THEN JPair(key, value) ELSE pairs[i]]
    ELSE Append(pairs, JPair(key, value))

HasKey(obj, key) ==
    obj.kind = "object" /\ \E i \in 1..Len(obj.items) : obj.items[i].chars = key

GetKey(obj, key) ==
    obj.items[CHOOSE i \in 1..Len(obj.items) : obj.items[i].chars = key].items[1]

\* json.dump(obj, f, indent=2, ensure_ascii=False): the text written.  With
\* ensure_ascii=False only the quote, the backslash and control characters are
\* escaped; every other character is written as it is.
Escape(c) ==
    IF c = Quote THEN <<Backslash, Quote>>
    ELSE IF c = Backslash THEN <<Backslash, Backslash>>
    ELSE IF c = Newline THEN <<Backslash, "n">>
    ELSE <<c>>

RECURSIVE EscapeAll(_)
EscapeAll(chars) ==
    IF chars = <<>> THEN <<>> ELSE Escape(Head(chars)) \o EscapeAll(Tail(chars))

EncodeString(chars) == <<Quote>> \o EscapeAll(chars) \o <<Quote>>

Indent(level) == [i \in 1..(2 * level) |-> " "]

RECURSIVE json_dumps(_, _), DumpItems(_, _)
json_dumps(v, level) ==
    CASE v.kind = "string" -> EncodeString(v.chars)
      [] v.kind = "number" -> v.chars
      [] v.kind = "null" -> <<"n", "u", "l", "l">>
      [] v.kind = "pair" ->
            EncodeString(v.chars) \o <<":", " ">> \o json_dumps(v.items[1], level)
      [] OTHER ->
            LET open == IF v.kind = "array" THEN "[" ELSE "{"
                close == IF v.kind = "array" THEN "]" ELSE "}"
            IN  IF v.items = <<>> THEN <<open, close>>
                ELSE <<open, Newline>> \o DumpItems(v.items, level + 1)
                         \o <<Newline>> \o Indent(level) \o <<close>>
DumpItems(items, level) ==
    Indent(level) \o json_dumps(Head(items), level)
        \o (IF Len(items) = 1 THEN <<>>
            ELSE <<",", Newline>> \o DumpItems(Tail(items), level))

\* json.load: the value a text stands for, or JSONDecodeError
Whitespace == {" ", Newline}
Digits == {"0", "1", "2", "3", "4", "5", "6", "7", "8", "9", "."}

DecodeError == [ok |-> FALSE, value |-> JNull, next |-> 0]
Parsed(v, next) == [ok |-> TRUE, value |-> v, next |-> next]

RECURSIVE SkipWs(_, _)
SkipWs(s, i) ==
    IF i <= Len(s) /\ s[i] \in Whitespace THEN SkipWs(s, i + 1) ELSE i

RECURSIVE ScanString(_, _, _)
ScanString(s, i, acc) ==
    IF i > Len(s) \/ s[i] = Newline THEN DecodeError
    ELSE IF s[i] = Quote THEN Parsed(JString(acc), i + 1)
    ELSE IF s[i] = Backslash
         THEN IF i + 1 > Len(s) THEN DecodeError
              ELSE IF s[i + 1] \in {Quote, Backslash}
                   THEN ScanString(s, i + 2, Append(acc, s[i + 1]))
              ELSE IF s[i + 1] = "n"
                   THEN ScanString(s, i + 2, Append(acc, Newline))
              ELSE DecodeError
    ELSE ScanString(s, i + 1, Append(acc, s[i]))

RECURSIVE ScanNumber(_, _, _)
ScanNumber(s, i, acc) ==
    IF i <= Len(s) /\ s[i] \in Digits THEN ScanNumber(s, i + 1, Append(acc, s[i]))
    ELSE Parsed(JNumber(acc), i)

RECURSIVE ParseValue(_, _), ParseElements(_, _, _), ParseMembers(_, _, _)
ParseValue(s, i0) ==
    LET i == SkipWs(s, i0)
    IN  IF i > Len(s) THEN DecodeError
        ELSE IF s[i] = Quote THEN ScanString(s, i + 1, <<>>)
        ELSE IF s[i] \in Digits THEN ScanNumber(s, i, <<>>)
        ELSE IF s[i] = "n"
             THEN IF i + 3 <= Len(s) /\ SubSeq(s, i, i + 3) = <<"n", "u", "l", "l">>
                  THEN Parsed(JNull, i + 4) ELSE DecodeError
        ELSE IF s[i] \in {"[", "{"}
             THEN LET j == SkipWs(s, i + 1)
                  IN  IF j > Len(s) THEN DecodeError
                      ELSE IF s[i] = "[" /\ s[j] = "]" THEN Parsed(JArray(<<>>), j + 1)
                      ELSE IF s[i] = "{" /\ s[j] = "}" THEN Parsed(JObject(<<>>), j + 1)
                      ELSE IF s[i] = "[" THEN ParseElements(s, j, <<>>)
                      ELSE ParseMembers(s, j, <<>>)
        ELSE DecodeError
ParseElements(s, i, acc) ==
    LET r == ParseValue(s, i)
        j == SkipWs(s, r.next)
    IN  IF ~r.ok \/ j > Len(s) THEN DecodeError
        ELSE IF s[j] = "," THEN ParseElements(s, j + 1, Append(acc, r.value))
        ELSE IF s[j] = "]" THEN Parsed(JArray(Append(acc, r.value)), j + 1)
        ELSE DecodeError
ParseMembers(s, i0, acc) ==
    LET i == SkipWs(s, i0)
        k == IF i <= Len(s) /\ s[i] = Quote THEN ScanString(s, i + 1, <<>>)
             ELSE DecodeError
        c == SkipWs(s, k.next)
        r == ParseValue(s, c + 1)
        j == SkipWs(s, r.next)
    IN  IF ~k.ok \/ c > Len(s) THEN DecodeError
        ELSE IF s[c] # ":" THEN DecodeError
        ELSE IF ~r.ok \/ j > Len(s) THEN DecodeError
        ELSE IF s[j] = ","
             THEN ParseMembers(s, j + 1, PutKey(acc, k.value.chars, r.value))
        ELSE IF s[j] = "}"
             THEN Parsed(JObject(PutKey(acc, k.value.chars, r.value)), j + 1)
        ELSE DecodeError

json_loads(s) ==
    LET r == ParseValue(s, 1)
    IN  IF r.ok /\ SkipWs(s, r.next) > Len(s) THEN r ELSE DecodeError

\* open(..., encoding="utf-8"): the bytes of a text and the text of bytes; a
\* name stands for the bytes of one character.  A lone surrogate cannot be
\* encoded: write raises UnicodeEncodeError, and what was written before it
\* stays in the file.
Utf8Bytes(c) == IF c = EAcute THEN "0xC3 0xA9" ELSE c

Utf8Encode(text) ==
    LET bad == {i \in 1..Len(text) : text[i] = Surrogate}
        n == IF bad = {} THEN Len(text)
             ELSE (CHOOSE i \in bad : \A j \in bad : i <= j) - 1
    IN  [ok |-> bad = {}, bytes |-> [i \in 1..n |-> Utf8Bytes(text[i])]]

\* the same bytes read as Latin-1: one character per byte
Utf8Decode_latin1(bytes) ==
    [i \in 1..Len(bytes) |->
        IF bytes[i] = "0xC3 0xA9" THEN "A-tilde copyright" ELSE bytes[i]]

Utf8Decode(bytes) ==
    [i \in 1..Len(bytes) |-> IF bytes[i] = "0xC3 0xA9" THEN EAcute ELSE bytes[i]]

\* a file: "missing", or "bytes"
NoFile == [state |-> "missing", bytes |-> <<>>]
FileWith(bytes) == [state |-> "bytes", bytes |-> bytes]

SaveOutcomes == {"ok", "open_failed", "dump_failed", "encode_failed"}

\* with open(path, "w", encoding="utf-8") as f: json.dump(value, f, ...).
\* w is what the file system does; the outcome also tells a text that could
\* not be encoded.  A failed open leaves the file as it was; opening truncates,
\* so a failure after it leaves what was written until then.
WriteJson(file, value, w) ==
    LET e == Utf8Encode(json_dumps(value, 0))
    IN  CASE w = "open_failed" -> [file |-> file, outcome |-> "open_failed"]
          [] w = "dump_failed" -> [file |-> FileWith(<<>>), outcome |-> "dump_failed"]
          [] OTHER -> [file |-> FileWith(e.bytes),
                       outcome |-> IF e.ok THEN "ok" ELSE "encode_failed"]

\* with open(path, "r", encoding="utf-8") as f: json.load(f)
ReadJson(file) ==
    IF file.state = "missing" THEN [error |-> "FileNotFoundError", value |-> JNull]
    ELSE LET r == json_loads(Utf8Decode(file.bytes))
         IN  IF r.ok THEN [error |-> "none", value |-> r.value]
             ELSE [error |-> "JSONDecodeError", value |-> JNull]

\* a message as add_message builds it (memory.py:103): {"role":, "content":}
Role == <<"r", "o", "l", "e">>
Content == <<"c", "o", "n", "t", "e", "n", "t">>
User == <<"u", "s", "e", "r">>
Assistant == <<"a", "s", "s", "i", "s", "t", "a", "n", "t">>
Message(role, content) ==
    JObject(<<JPair(Role, JString(role)), JPair(Content, JString(content))>>)

\* memory.py:52-56 on a list of messages: user and assistant entries go to the
\* summarizer
RECURSIVE ChatOfValue(_)
ChatOfValue(items) ==
    IF items = <<>> THEN <<>>
    ELSE LET m == Head(items)
             role == GetKey(m, Role).chars
         IN  IF role \in {User, Assistant}
             THEN <<[role |-> role, content |-> GetKey(m, Content).chars]>>
                      \o ChatOfValue(Tail(items))
             ELSE ChatOfValue(Tail(items))

\* msg["role"] or msg["content"] raises on an entry of another shape
EntryRaises(m) ==
    \/ ~HasKey(m, Role)
    \/ GetKey(m, Role).chars \in {User, Assistant} /\ ~HasKey(m, Content)

\* _load_messages on the bytes of the log file
_load_messages_bytes(file) ==
    LET r == ReadJson(file)
    IN  IF r.error # "none"
        THEN [raised |-> FALSE, messages |-> JArray(<<>>), chat |-> <<>>]
        ELSE IF r.value.kind # "array"
                   \/ \E i \in 1..Len(r.value.items) : EntryRaises(r.value.items[i])
        THEN [raised |-> TRUE, messages |-> r.value, chat |-> <<>>]
        ELSE [raised |-> FALSE, messages |-> r.value,
              chat |-> ChatOfValue(r.value.items)]

\* _save_messages on the bytes of the log file: every exception is swallowed
_save_messages_bytes(file, msgs, w) == WriteJson(file, msgs, w)

\* add_message: summarizer, append, save
add_message_bytes(st, content, is_human, w) ==
    LET role == IF is_human THEN User ELSE Assistant
        msgs2 == JArray(Append(st.messages.items, Message(role, content)))
        saved == _save_messages_bytes(st.file, msgs2, w)
    IN  [messages |-> msgs2,
         chat |-> Append(st.chat, [role |-> role, content |-> content]),
         file |-> saved.file, outcome |-> saved.outcome]

\* the record of save_paper_details (arxiv_tools.py:129-136); url and summary
\* may be None, last_accessed is the float time.time() returns
PaperEntry(id, title, authors, url, summary, now) ==
    JObject(<<JPair(<<"i", "d">>, JString(id)),
              JPair(<<"t", "i", "t", "l", "e">>, JString(title)),
              JPair(<<"a", "u", "t", "h", "o", "r", "s">>, JString(authors)),
              JPair(<<"u", "r", "l">>, url),
              JPair(<<"s", "u", "m", "m", "a", "r", "y">>, summary),
              JPair(<<"l", "a", "s", "t", "_", "a", "c", "c", "e", "s", "s", "e", "d">>,
                    JNumber(now))>>)

\* save_paper_details on the bytes of the registry file: read (missing or
\* unparsable: {}), set the key, rewrite; every exception gives False
save_paper_details_bytes(file, id, entry, w) ==
    LET r == ReadJson(file)
        paper_details == IF r.error # "none" THEN JObject(<<>>) ELSE r.value
    IN  IF paper_details.kind # "object"
        THEN [file |-> file, outcome |-> "raised", saved |-> paper_details]
        ELSE LET updated == JObject(PutKey(paper_details.items, id, entry))
                 written == WriteJson(file, updated, w)
             IN  [file |-> written.file, outcome |-> written.outcome,
                  saved |-> updated]

\* get_paper_details on the bytes of the registry file
get_paper_details_bytes(file) ==
    LET r == ReadJson(file)
    IN  IF r.error # "none" THEN JObject(<<>>) ELSE r.value

\* what is said and what is found
SavedTexts ==
    { <<EAcute, Quote, Backslash, "n", Newline, " ", "[", "}">>,
      <<"x", Surrogate>> }
SavedPapers ==
    { [id |-> Id_p1,
       entry |-> PaperEntry(Id_p1, <<"t", Quote, EAcute>>, <<"x", ",", " ", "y">>,
                            JNull, JNull, <<"1", ".", "5">>)],
      [id |-> Id_p1,
       entry |-> PaperEntry(Id_p1, <<"t", Surrogate>>, <<"x">>,
                            JString(<<"u", ":", "/">>), JString(<<"s", Backslash>>),
                            <<"2">>)],
      [id |-> Id_p2,
       entry |-> PaperEntry(Id_p2, <<"{", "}">>, <<"y">>,
                            JString(<<"u", "2">>), JString(<<Newline>>),
                            <<"3", ".", "2", "5">>)] }

\* a first run: no log file, no registry file
InitFilesAsBytes ==
    /\ memory_file = NoFile
    /\ paper_details_file = NoFile
    /\ constructed = "ok"
    /\ messages = JArray(<<>>)
    /\ chat_memory = <<>>
    /\ thread_id = 1
    /\ summary_due = FALSE
    /\ last = [NoCall EXCEPT !.op = "init"]
    /\ config = [relevance_threshold |-> DefaultThreshold, perplexity_key |-> TRUE]
    /\ Configured
    /\ db = <<>>
    /\ search_log = <<>>
    /\ chatbot = <<>>
    /\ msg = <<>>
    /\ ui_last = NoChat

\* add_message(content, is_human)
AddMessageSaved ==
    /\ constructed = "ok"
    /\ Len(messages.items) < MaxSaved
    /\ \E content \in SavedTexts, is_human \in BOOLEAN,
          w \in {"ok", "open_failed", "dump_failed"} :
       \E st \in {add_message_bytes([messages |-> messages, chat |-> chat_memory,
                                     file |-> memory_file],
                                    content, is_human, w)} :
          /\ messages' = st.messages
          /\ chat_memory' = st.chat
          /\ memory_file' = st.file
          /\ last' = [NoCall EXCEPT !.op = "add_message", !.prevOp = last.op,
                                    !.saved = st.messages,
                                    !.writes = <<st.outcome>>]
    /\ UNCHANGED <<paper_details_file, constructed, thread_id, summary_due>>
    /\ UNCHANGED ui_vars

\* the program is started again: PenelopeMemory.__init__ loads the log
LoadMessages ==
    /\ thread_id < MaxSessions
    /\ \E r \in {_load_messages_bytes(memory_file)} :
          /\ messages' = r.messages
          /\ chat_memory' = r.chat
          /\ constructed' = IF r.raised THEN "raised" ELSE "ok"
          /\ last' = [NoCall EXCEPT !.op = "_load_messages", !.prevOp = last.op,
                                    !.saved = last.saved, !.writes = last.writes]
    /\ thread_id' = thread_id + 1
    /\ UNCHANGED <<memory_file, paper_details_file, summary_due>>
    /\ UNCHANGED ui_vars

\* save_paper_details(paper_id, title, authors, url, summary)
SavePaperDetails ==
    /\ ui_last.count < MaxSaved
    /\ \E p \in SavedPapers, w \in {"ok", "dump_failed"} :
       \E r \in {save_paper_details_bytes(paper_details_file, p.id, p.entry, w)} :
          /\ paper_details_file' = r.file
          /\ ui_last' = [NoChat EXCEPT !.flow = "save_paper_details",
                                       !.prev = ui_last.flow,
                                       !.saved = r.saved, !.ws = <<r.outcome>>,
                                       !.count = ui_last.count + 1]
    /\ UNCHANGED <<cfg_vars, config, db, search_log, chatbot, msg>>
    /\ UNCHANGED mem_vars_but_registry

\* get_paper_details()
GetPaperDetails ==
    /\ ui_last.flow # "get_paper_details"
    /\ \E r \in {get_paper_details_bytes(paper_details_file)} :
          ui_last' = [NoChat EXCEPT !.flow = "get_paper_details",
                                    !.prev = ui_last.flow,
                                    !.saved = ui_last.saved, !.ws = ui_last.ws,
                                    !.loaded = r, !.count = ui_last.count]
    /\ UNCHANGED <<cfg_vars, config, db, search_log, chatbot, msg>>
    /\ UNCHANGED mem_vars

NextFiles == AddMessageSaved \/ LoadMessages \/ SavePaperDetails \/ GetPaperDetails

----------------------------------------------------------------------------
(* The memory with add_message called on its own (memory.py:95-106) *)

MaxDirect == 2        \* add_message is called on its own on logs shorter than this

\* a start on no log file, on a log with an entry of another role, or on a
\* file holding {}
InitSync ==
    /\ memory_file \in
           {MissingFile,
            FileOf(JList(<<Msg("system", "x0")>>)),
            FileOf([type |-> "dict", items |-> <<>>])}
    /\ paper_details_file = Registry("missing", <<>>)
    /\ constructed = "none"
    /\ messages = EmptyList
    /\ chat_memory = <<>>
    /\ thread_id = 0
    /\ summary_due = FALSE
    /\ last = NoCall
    /\ config = [relevance_threshold |-> DefaultThreshold, perplexity_key |-> TRUE]
    /\ Configured
    /\ db = <<>>
    /\ search_log = <<>>
    /\ chatbot = <<>>
    /\ msg = <<>>
    /\ ui_last = NoChat

\* add_message(message, is_human): it has no try, so the AttributeError of
\* messages.append on a log that is no list reaches the caller
AddMessage ==
    /\ constructed = "ok"
    /\ PyLen(messages) < MaxDirect
    /\ Len(chat_memory) < MaxDirect
    /\ \E message \in Queries, is_human \in BOOLEAN, w \in {"ok", "open_failed"} :
       \E st \in {add_message(MemState, message, is_human, w)} :
          /\ messages' = st.messages
          /\ chat_memory' = st.chat
          /\ memory_file' = st.file
          /\ summary_due' = st.due
          /\ last' = [Started("add_message") EXCEPT
                          !.query = message, !.raised = st.raised,
                          !.writes = IF st.raised THEN <<>> ELSE <<w>>]
    /\ UNCHANGED <<paper_details_file, constructed, thread_id>>
    /\ UNCHANGED ui_vars

NextSync == Construct \/ AddMessage \/ GetResponse \/ Reset

----------------------------------------------------------------------------
(* Specifications *)

SpecMem == InitMem /\ [][NextMem]_vars

SpecPapers == InitPapers /\ [][NextPapers]_vars

SpecKb == InitKb /\ [][NextKb]_vars

SpecConfig == InitConfig /\ [][NextConfig]_vars

SpecChat == InitChat /\ [][NextChat]_vars

SpecWeb == InitWeb /\ [][NextWeb]_vars

SpecModel == InitModel /\ [][NextModel]_vars

SpecVoice == InitVoice /\ [][NextVoice]_vars

SpecFiles == InitFilesAsBytes /\ [][NextFiles]_vars

SpecSync == InitSync /\ [][NextSync]_vars

----------------------------------------------------------------------------
(* Claims about the conversation memory, checked under SpecMem *)

Range(f) == {f[i] : i \in DOMAIN f}

Turn == last.op = "get_response"
StartLen == PyLen(last.startLog)
Generated == "generate" \in Range(last.calls)
SummarizerCalls == Cardinality({i \in DOMAIN last.calls : last.calls[i] = "summarize"})

\* C1: a get_response that starts with fewer than 10 logged messages hands the
\* generation step the entire message log as it stands, in order: no summary,
\* no subset.
T_C1_FullHistoryBelowThreshold ==
    (Turn /\ StartLen < SummaryEvery) =>
        /\ last.calls = <<"generate">>
        /\ last.history = last.startLog

W_C1_FullHistoryBelowThreshold ==
    /\ Turn /\ StartLen = SummaryEvery - 1
    /\ last.history = last.startLog

\* C2: a get_response that starts with 10 or more logged messages hands the
\* generation step exactly the two-message pair: a user message carrying the
\* summary the summarizer returned, then the fixed acknowledgement; no logged
\* message is in it.
T_C2_SummaryPairAtThreshold ==
    (Turn /\ StartLen >= SummaryEvery /\ Generated) =>
        /\ last.summary \in Summaries
        /\ last.history.type = "list"
        /\ Len(last.history.items) = 2
        /\ last.history.items[1] = Msg("user", HistoryContext(last.summary))
        /\ last.history.items[2] = Msg("assistant", Acknowledgement)
        /\ \A i \in 1..2 : last.history.items[i] \notin Range(last.startLog.items)

W_C2_SummaryPairAtThreshold ==
    /\ Turn /\ StartLen = SummaryEvery /\ Generated
    /\ last.summary = "s1"

\* C3: the summarizer is asked exactly once on a turn whose message count has
\* reached a multiple of 10 (10, 20, ...) and not at all on any other turn.
CE_C3_SummaryOncePerBoundary ==
    Turn =>
        SummarizerCalls =
            (IF StartLen > 0 /\ StartLen % SummaryEvery = 0 THEN 1 ELSE 0)

\* C4: whenever an append has brought the log to a multiple of 10 (whatever the
\* length of the log loaded at start, odd or even), the summarizer is asked for
\* the summary before the next generation call is made: no generation call
\* finds a boundary passed and the summary not asked for since.
T_C4_NoBoundarySkipped ==
    (Turn /\ Generated) =>
        /\ ~last.dueAtGen
        /\ (last.dueAtStart => last.calls[1] = "summarize")

W_C4_NoBoundarySkipped ==
    /\ Turn /\ Generated
    /\ last.dueAtStart
    /\ StartLen % SummaryEvery # 0
    /\ last.prevOp = "get_response"

\* C5 (as stated): every get_response, whatever summarization and generation
\* do, appends exactly two messages, the user's query then the assistant's
\* answer, and leaves the persisted file holding exactly the in-memory log.
CE_C5_TurnAppendsTwoAndPersists ==
    Turn =>
        /\ messages.type = "list"
        /\ messages.items =
               last.startLog.items \o
                   <<Msg("user", last.query), Msg("assistant", last.answer)>>
        /\ memory_file = FileOf(messages)

\* C5 (amended): a get_response that reaches the generation step on a log that
\* is a list appends exactly two messages, the user's query then the returned
\* answer (also when generation failed and the answer is its error text); one
\* that raises before (the summarizer fails) or at the append returns the
\* error text and leaves the log as it was; the persisted file holds exactly
\* the in-memory log whenever the turn's last write succeeded.
T_C5_TurnAppendsTwoOrNothing ==
    Turn =>
        /\ (Generated /\ last.startLog.type = "list") =>
               /\ last.answer \in Answers
               /\ messages.type = "list"
               /\ messages.items =
                      last.startLog.items \o
                          <<Msg("user", last.query), Msg("assistant", last.answer)>>
               /\ Len(last.writes) = 2
               /\ (last.writes[2] = "ok" => memory_file = FileOf(messages))
        /\ ~(Generated /\ last.startLog.type = "list") =>
               /\ last.answer = ErrorAnswer
               /\ messages = last.startLog
               /\ last.writes = <<>>

W_C5_TurnAppendsTwoOrNothing ==
    /\ Turn /\ Generated
    /\ StartLen >= SummaryEvery
    /\ last.writes = <<"ok", "ok">>
    /\ Len(messages.items) = StartLen + 2
    /\ memory_file = FileOf(messages)

\* C6 (as stated): reset, from any state, leaves the log empty, the summarizer's
\* history empty, a fresh session token, the persisted log equal to the empty
\* list and the paper registry unchanged; a second reset changes none of log,
\* summarizer and registry.
ResetEffects ==
    /\ messages = EmptyList
    /\ chat_memory = <<>>
    /\ thread_id # last.startThread
    /\ paper_details_file = last.startRegistry
    /\ (last.prevOp = "reset" =>
            /\ messages = last.startLog
            /\ chat_memory = last.startChat)

CE_C6_ResetPersistsEmptyLog ==
    last.op = "reset" =>
        /\ ResetEffects
        /\ memory_file = FileOf(EmptyList)

\* C6 (amended): as stated, except that the persisted log is the empty list
\* when the write of the file succeeds; a failed write is logged and leaves
\* the file as the failure left it (unchanged, or truncated).
T_C6_ResetEffects ==
    last.op = "reset" =>
        /\ ResetEffects
        /\ (last.writes = <<"ok">> => memory_file = FileOf(EmptyList))

W_C6_ResetEffects ==
    /\ last.op = "reset"
    /\ last.prevOp = "get_response"
    /\ last.startLog # EmptyList
    /\ last.startRegistry.papers # <<>>
    /\ last.writes = <<"ok">>

\* C7: whenever the persisted file is not a well-formed list of {role, content}
\* messages (missing, not JSON, or JSON of another shape), the constructor
\* completes without raising and with an empty message log.
CE_C7_StartEmptyOnBadFile ==
    (last.op = "init" /\ ~(memory_file.state = "json" /\ WellFormedLog(memory_file.value))) =>
        /\ ~last.raised
        /\ constructed = "ok"
        /\ messages = EmptyList

----------------------------------------------------------------------------
(* Claims about retrieval and the chat router, checked under SpecChat *)

Called(c) == c \in Range(ui_last.calls)

\* C8: in the default (unprefixed) flow, retrieval is attempted first; the web
\* search is invoked exactly when retrieval produced no relevant context (no
\* candidate survived, or retrieval failed) and the generation exactly when at
\* least one relevant passage was retrieved.
CE_C8_WebSearchIffNoContext ==
    ui_last.flow = "default" =>
        /\ ui_last.calls # <<>> /\ ui_last.calls[1] = "kb_search"
        /\ Called("generate") <=> ui_last.kb_results.kind = "context"
        /\ (config.perplexity_key =>
                (Called("web_search") <=> ui_last.kb_results.kind # "context"))

\* C9: when the store answers a search, search_relevant_context returns
\* exactly the candidates whose score is strictly greater than the configured
\* threshold, in the store's order, and the "No relevant information" text if
\* and only if no candidate survives (an empty store included).
Survivors == {i \in DOMAIN ui_last.store.results :
                 ui_last.store.results[i].score > config.relevance_threshold}
Place(i) == Cardinality({j \in Survivors : j <= i})

T_C9_ExactlyAboveThreshold ==
    (ui_last.flow \in {"search_kb", "default"} /\ ui_last.store.ok) =>
        /\ Len(ui_last.kb_results.passages) = Cardinality(Survivors)
        /\ \A i \in Survivors :
              /\ ui_last.kb_results.passages[Place(i)].content =
                     ui_last.store.results[i].doc.content
              /\ ui_last.kb_results.passages[Place(i)].relevance =
                     ui_last.store.results[i].score
        /\ (ui_last.kb_results = NoInfo) <=> (Survivors = {})
        /\ ui_last.kb_results.kind \in {"context", "no_relevant_information"}

W_C9_ExactlyAboveThreshold ==
    /\ ui_last.flow = "search_kb" /\ ui_last.store.ok
    /\ Len(ui_last.store.results) = 2
    /\ ui_last.store.results[1].score = DefaultThreshold + 1
    /\ ui_last.store.results[2].score = DefaultThreshold
    /\ config.relevance_threshold = DefaultThreshold
    /\ Len(ui_last.kb_results.passages) = 1

\* C10: an utterance that starts with "search kb:", in any letter case, is
\* answered by the knowledge-base search and calls neither the web search nor
\* the generation, whatever the store holds or does.
T_C10_SearchKbOnly ==
    StartsWith(Lower(ui_last.utterance), P_search_kb) =>
        /\ ui_last.flow = "search_kb"
        /\ ui_last.calls = <<"kb_search">>
        /\ ~Called("web_search") /\ ~Called("generate")
        /\ chatbot[Len(chatbot)].role = "assistant"
        /\ chatbot[Len(chatbot)].content.kind = "kb_search_results"
        /\ chatbot[Len(chatbot)].content.body = ui_last.kb_results

W_C10_SearchKbOnly ==
    /\ ui_last.utterance = <<"S", "E", "A", "R", "C", "H", " ", "K", "B", ":", " ", "l", "n">>
    /\ db = <<>>
    /\ ui_last.store.ok
    /\ ui_last.kb_results = NoInfo

\* The recognized prefixes and the flow of each
Prefixes ==
    {P_search_arxiv, P_summarize_arxiv, P_search_kb, P_check_kb, P_perplexity}

FlowOfPrefix(p) ==
    CASE p = P_search_arxiv -> "search_arxiv"
      [] p = P_summarize_arxiv -> "summarize_arxiv"
      [] p = P_search_kb -> "search_kb"
      [] p = P_check_kb -> "check_kb"
      [] p = P_perplexity -> "perplexity"

\* the prefixes an utterance starts with, letter case ignored
PrefixesAtStart(u) ==
    {p \in Prefixes : Len(u) >= Len(p) /\ Lower(SubSeq(u, 1, Len(p))) = p}

\* the texts and the collaborator calls that belong to a flow
TextsOfFlow(flow) ==
    CASE flow = "search_arxiv" -> {"arxiv_error", "arxiv_none", "arxiv_results"}
      [] flow = "summarize_arxiv" ->
             {"no_paper_details", "no_details_for_id", "summary", "chat_error"}
      [] flow = "search_kb" -> {"kb_search_results"}
      [] flow = "check_kb" -> {"kb_info_error"}
      [] flow = "perplexity" ->
             {"perplexity_no_key", "perplexity_technical_issue",
              "perplexity_http_error", "perplexity_result"}
      [] OTHER -> {"answer", "perplexity_no_key", "perplexity_technical_issue",
                   "perplexity_http_error", "perplexity_result"}

CallsOfFlow(flow) ==
    CASE flow = "search_arxiv" -> {"arxiv"}
      [] flow = "summarize_arxiv" -> {"generate"}
      [] flow = "search_kb" -> {"kb_search"}
      [] flow = "check_kb" -> {}
      [] flow = "perplexity" -> {"web_search"}
      [] OTHER -> {"kb_search", "generate", "web_search"}

\* a call of chat on a non-blank utterance has just returned
Chatted == ui_last.flow \notin {"none", "blank"}

\* C11: a non-blank utterance that starts, letter case ignored, with a
\* recognized prefix runs that prefix's flow and no other (its reply is one of
\* that flow's texts and only that flow's collaborators are called); the
\* default retrieval-augmented flow, which starts with a knowledge-base search,
\* runs exactly for the utterances that start with none of the prefixes.
T_C11_PrefixSelectsOneFlow ==
    Chatted =>
        /\ \A p \in PrefixesAtStart(ui_last.utterance) :
               /\ ui_last.flow = FlowOfPrefix(p)
               /\ chatbot[Len(chatbot)].content.kind \in TextsOfFlow(FlowOfPrefix(p))
               /\ Range(ui_last.calls) \subseteq CallsOfFlow(FlowOfPrefix(p))
        /\ (PrefixesAtStart(ui_last.utterance) = {}) <=> (ui_last.flow = "default")
        /\ ui_last.flow = "default" =>
               /\ ui_last.calls # <<>> /\ ui_last.calls[1] = "kb_search"
               /\ chatbot[Len(chatbot)].content.kind \in TextsOfFlow("default")

\* a prefix in capitals selected its flow, and a prefix after a leading space
\* did not
W_C11_PrefixSelectsOneFlow ==
    /\ Chatted
    /\ ui_last.utterance = <<"C", "h", "e", "c", "k", " ", "K", "B", " ", "d", "e", "t", "a", "i", "l", "s">>
    /\ ui_last.flow = "check_kb"
    /\ Len(chatbot) = 4
    /\ chatbot[1].content = <<" ", "s", "e", "a", "r", "c", "h", " ", "k", "b", ":", " ", "l", "n">>
    /\ chatbot[2].content.kind = "answer"

\* C12: after chat on a non-blank utterance, whatever the flow and also when
\* the flow ended in an error, the returned history is the input history
\* followed by exactly two entries, the user's with the utterance as typed and
\* the assistant's with the flow's text (the error text when the flow raised),
\* and the input box is empty.
T_C12_HistoryGrowsByTwo ==
    Chatted =>
        /\ ~ui_last.raised
        /\ Len(chatbot) = Len(ui_last.startHistory) + 2
        /\ SubSeq(chatbot, 1, Len(ui_last.startHistory)) = ui_last.startHistory
        /\ chatbot[Len(chatbot) - 1] = Entry("user", ui_last.utterance)
        /\ chatbot[Len(chatbot)].role = "assistant"
        /\ chatbot[Len(chatbot)].content =
               (IF ui_last.caught THEN [kind |-> "chat_error"] ELSE ui_last.text)
        /\ ui_last.input = <<>>

\* a second turn, typed with a leading space, whose flow ended in an error text
W_C12_HistoryGrowsByTwo ==
    /\ Chatted
    /\ Len(ui_last.startHistory) = 2
    /\ ui_last.utterance = <<" ", "s", "e", "a", "r", "c", "h", " ", "k", "b", ":", " ", "l", "n">>
    /\ chatbot[3].content = ui_last.utterance
    /\ chatbot[4].content.kind = "perplexity_technical_issue" \/ chatbot[4].content.kind = "answer"
    /\ ui_last.kb_results = ErrorInfo

\* C13: chat never raises; when the flow it ran raised, chat returned normally
\* and the last entry of the history is an assistant message holding the error,
\* right after the user's utterance.
T_C13_ChatNeverRaises ==
    /\ ~ui_last.raised
    /\ (Chatted /\ ui_last.caught) =>
           /\ chatbot[Len(chatbot)] = Entry("assistant", [kind |-> "chat_error"])
           /\ chatbot[Len(chatbot) - 1] = Entry("user", ui_last.utterance)
           /\ ui_last.input = <<>>

\* summarize_arxiv_paper raised on a registry file that holds no JSON object
W_C13_ChatNeverRaises ==
    /\ Chatted
    /\ ui_last.caught
    /\ ui_last.flow = "summarize_arxiv"
    /\ paper_details_file.state = "other"
    /\ chatbot[Len(chatbot)].content.kind = "chat_error"

----------------------------------------------------------------------------
(* Claims about the paper registry and the arXiv tab, checked under SpecPapers *)

Ids(file) == {file.papers[i].id : i \in 1..Len(file.papers)}
RecordOf(file, id) ==
    file.papers[CHOOSE i \in 1..Len(file.papers) : file.papers[i].id = id]

SearchedPapers == ui_last.flow = "arxiv_tab_search" /\ ui_last.calls # <<>>
Found == IF SearchedPapers /\ ui_last.arxiv.ok THEN ui_last.arxiv.results ELSE <<>>
ShownId(i) == LastSegment(Found[i].entry_id)
\* a rewrite of the registry failed after the file had been opened for writing
Truncated(from) ==
    \E j \in from..Len(Found) : ui_last.ws[j] = "dump_failed"
SavedIds ==
    {ShownId(i) : i \in {j \in 1..Len(Found) : ui_last.ws[j] = "ok"}}

\* C14: when the Summarize button (add_to_kb=True, a knowledge base, a model)
\* is used with a paper id of the registry, the summary is added to the
\* knowledge base and the returned text reports that it was added.
CE_C14_SummaryAddedToKb ==
    (ui_last.flow = "arxiv_tab_summarize" /\ ui_last.text.kind = "summary") =>
        /\ ui_last.text.kb = "added"
        /\ Len(db) > Len(ui_last.startDb)

\* C15 (as stated): whatever saves and resets happened, every id the registry
\* file held before an operation is still in it afterwards.
CE_C15_SavedIdsStay ==
    Ids(ui_last.startRegistry) \subseteq Ids(paper_details_file)

\* C15 (amended): the registry holds each id once; memory resets and
\* summaries leave the file as it was; across a search no id is lost unless one
\* of its rewrites failed after truncating the file; when none did, every id
\* the search did not save keeps its record, and every id it saved holds the
\* record of that paper only.
T_C15_IdsKeptUnlessRewriteFails ==
    /\ \A i, j \in 1..Len(paper_details_file.papers) :
           paper_details_file.papers[i].id = paper_details_file.papers[j].id => i = j
    /\ ui_last.flow \in {"arxiv_tab_summarize", "clear"} =>
           paper_details_file = ui_last.startRegistry
    /\ (SearchedPapers /\ ~Truncated(1)) =>
           /\ Ids(ui_last.startRegistry) \subseteq Ids(paper_details_file)
           /\ \A id \in Ids(ui_last.startRegistry) \ SavedIds :
                  RecordOf(paper_details_file, id) = RecordOf(ui_last.startRegistry, id)
           /\ ui_last.startRegistry.state # "other" =>
                  \A i \in 1..Len(Found) :
                      ui_last.ws[i] = "ok" =>
                          /\ ShownId(i) \in Ids(paper_details_file)
                          /\ RecordOf(paper_details_file, ShownId(i)).title = Found[i].title

\* a paper already in the registry was found again, with another one: the
\* registry holds its new record once, and the other paper
W_C15_IdsKeptUnlessRewriteFails ==
    /\ SearchedPapers
    /\ Id_p1 \in Ids(ui_last.startRegistry)
    /\ RecordOf(ui_last.startRegistry, Id_p1).title = "t1"
    /\ ui_last.ws = <<"ok", "ok">>
    /\ Len(paper_details_file.papers) = 2
    /\ RecordOf(paper_details_file, Id_p1).title = "t1 (revised)"
    /\ Id_p2 \in Ids(paper_details_file)

\* C16 (as stated): after a search that found papers the registry holds a
\* record for every paper shown, under the id shown, with at most 500
\* characters of abstract; after a search that found nothing or failed the
\* registry is as it was.
CE_C16_RegistryHoldsEveryResult ==
    SearchedPapers =>
        IF Found # <<>>
        THEN \A i \in 1..Len(Found) :
                 /\ ui_last.text.papers[i].id = ShownId(i)
                 /\ ShownId(i) \in Ids(paper_details_file)
                 /\ RecordOf(paper_details_file, ShownId(i)).summary <= StoredAbstract
        ELSE paper_details_file = ui_last.startRegistry

\* C16 (amended): after a search that found papers, every paper is shown under
\* the last segment of its entry id, and the registry holds, under that id, a
\* record with the abstract cut to 500 characters for every paper whose save
\* succeeded and was not followed by a failed rewrite; when the registry file
\* holds JSON that is no object nothing is saved and the file is unchanged;
\* after a search that found nothing or failed the registry is as it was.
T_C16_RegistryHoldsSavedResults ==
    SearchedPapers =>
        IF Found # <<>>
        THEN /\ ui_last.text.kind = "arxiv_results"
             /\ Len(ui_last.text.papers) = Len(Found)
             /\ \A i \in 1..Len(Found) :
                    /\ ui_last.text.papers[i].id = ShownId(i)
                    /\ (ui_last.ws[i] = "ok" /\ ~Truncated(i + 1)
                            /\ ui_last.startRegistry.state # "other") =>
                           /\ ShownId(i) \in Ids(paper_details_file)
                           /\ RecordOf(paper_details_file, ShownId(i)).summary
                                  = Min(Found[i].summary, StoredAbstract)
                           /\ RecordOf(paper_details_file, ShownId(i)).summary
                                  <= StoredAbstract
                           /\ RecordOf(paper_details_file, ShownId(i)).title
                                  = Found[i].title
             /\ ui_last.startRegistry.state = "other" =>
                    paper_details_file = ui_last.startRegistry
        ELSE /\ ui_last.text.kind \in {"arxiv_error", "arxiv_none"}
             /\ paper_details_file = ui_last.startRegistry

\* two papers with long abstracts were found and saved into a registry that
\* was missing
W_C16_RegistryHoldsSavedResults ==
    /\ SearchedPapers
    /\ Len(Found) = 2
    /\ ui_last.startRegistry.state = "missing"
    /\ ui_last.ws = <<"ok", "ok">>
    /\ Ids(paper_details_file) = {Id_p1, Id_p2}
    /\ Found[2].summary > StoredAbstract
    /\ RecordOf(paper_details_file, Id_p2).summary = StoredAbstract

----------------------------------------------------------------------------
(* Claims about ingestion and retrieval, checked under SpecKb *)

Ingested == ui_last.flow = "process_document"
DeclaredTypes == {<<"p", "d", "f">>, <<"t", "x", "t">>, <<"d", "o", "c", "x">>}

\* the chunks the last successful ingestion made
UploadedChunks ==
    {Chunk(<<"c", "h", "u", "n", "k">>, ui_last.doc.file_path,
           ui_last.doc.file_type, NoText, NoText)}

\* what process_document answers when the text of a pdf cannot be extracted
ExtractionFailure ==
    process_document(ui_last.startDb, <<"/", "u", "p", "/", "f", ".", "p", "d", "f">>,
                     <<"p", "d", "f">>, "failed", 0, "none", "none")

\* C17: process_document with a declared type outside {pdf, txt, docx}
\* returns a failure, adds no chunk, and its failure message differs from the
\* one returned when the text of a supported type cannot be extracted.
CE_C17_UnsupportedFormatDistinct ==
    (Ingested /\ ui_last.doc.file_type \notin DeclaredTypes) =>
        /\ ~ui_last.result.ok
        /\ db = ui_last.startDb
        /\ ui_last.result.message # ExtractionFailure.message

\* C18: when process_document added the chunks and the persist step failed, it
\* returns success with the chunk count and the chunks are in the in-memory
\* store after those that were there; a later search of the same session that
\* the store answers, asking for at least as many candidates as the store
\* holds, gets them among its candidates.
T_C18_PersistFailureNonFatal ==
    /\ (Ingested /\ ui_last.doc.add = "ok" /\ ui_last.doc.persist = "failed") =>
           /\ ui_last.result.ok
           /\ ui_last.result.message = [kind |-> "added_chunks",
                                        count |-> ui_last.doc.chunks]
           /\ Len(db) = Len(ui_last.startDb) + ui_last.doc.chunks
           /\ SubSeq(db, 1, Len(ui_last.startDb)) = ui_last.startDb
           /\ \A i \in Len(ui_last.startDb) + 1 .. Len(db) : db[i] \in UploadedChunks
    /\ (ui_last.flow = "kb_search" /\ ui_last.doc.persist = "failed"
           /\ ui_last.store.ok /\ Len(db) <= 5) =>
           /\ ui_last.result.ok
           /\ UploadedChunks \subseteq Range(db)
           /\ UploadedChunks \subseteq
                  {ui_last.store.results[i].doc : i \in 1..Len(ui_last.store.results)}

\* after an ingestion whose persist failed, a search returned a passage of the
\* ingested document
W_C18_PersistFailureNonFatal ==
    /\ ui_last.flow = "kb_search"
    /\ ui_last.doc.persist = "failed"
    /\ ui_last.result.ok
    /\ ui_last.kb_results.kind = "context"
    /\ \E i \in 1..Len(ui_last.kb_results.passages) :
           ui_last.kb_results.passages[i].content = <<"c", "h", "u", "n", "k">>

\* C19: search_relevant_context does not raise; when the similarity search
\* (with its embedding call) fails it returns the error sentinel, and the
\* store is as it was.
T_C19_SearchFailureSentinel ==
    ui_last.flow = "kb_search" =>
        /\ ~ui_last.raised
        /\ ui_last.kb_results.kind \in
               {"context", "no_relevant_information", "error_retrieving"}
        /\ db = ui_last.startDb
        /\ ~ui_last.store.ok =>
               /\ ui_last.kb_results.kind = "error_retrieving"
               /\ StrippedLen(ui_last.kb_results) = ErrorInfoLen

\* the search failed on a store that holds chunks
W_C19_SearchFailureSentinel ==
    /\ ui_last.flow = "kb_search"
    /\ ~ui_last.store.ok
    /\ Len(db) = 2
    /\ ui_last.kb_results = ErrorInfo

----------------------------------------------------------------------------
(* Claim about the propagation policy, checked under SpecPapers *)

\* C20: no public operation raises into its caller, whatever the files hold
\* and whatever the collaborators do: here, summarize_arxiv_paper and
\* search_arxiv as the arXiv tab calls them.
CE_C20_PublicOperationsNeverRaise ==
    ui_last.flow \in {"arxiv_tab_summarize", "arxiv_tab_search"} => ~ui_last.caught

----------------------------------------------------------------------------
(* Claim about the configuration, checked under SpecConfig *)

\* the file gives a value for a key of a section
FileGives(sec, key) ==
    /\ config_file.state = "json"
    /\ config_file.value.kind = "object"
    /\ sec \in DOMAIN config_file.value.map
    /\ config_file.value.map[sec].kind = "object"
    /\ key \in DOMAIN config_file.value.map[sec].map

ExpectedValue(sec, key) ==
    IF sec = "api_keys" /\ key \in environ THEN EnvKey
    ELSE IF FileGives(sec, key) THEN config_file.value.map[sec].map[key]
    ELSE DefaultConfig[sec].map[key]

\* C22: after ConfigManager loads, whatever the config file holds, every
\* documented key of the four sections is present, with the file's value where
\* the file gives one and the default otherwise, and an API key is the value
\* of the service's environment variable when that variable is set.
CE_C22_DocumentedKeysPresent ==
    manager.state # "none" =>
        /\ manager.state = "loaded"
        /\ \A sec \in DOMAIN DefaultConfig :
               /\ manager.config[sec].kind = "object"
               /\ \A key \in DOMAIN DefaultConfig[sec].map :
                      /\ key \in DOMAIN manager.config[sec].map
                      /\ manager.config[sec].map[key] = ExpectedValue(sec, key)

----------------------------------------------------------------------------
(* Claims about the chat commands, checked under SpecChat *)

P_add_to_kb == <<"a", "d", "d", " ", "t", "o", " ", "k", "b", ":">>

\* C24: an utterance starting with "check kb" is answered with the statistics
\* report of the knowledge base, the detailed one when the utterance contains
\* "detail" or "full".
CE_C24_CheckKbReportsStatistics ==
    (Chatted /\ StartsWith(Lower(ui_last.utterance), P_check_kb)) =>
        /\ chatbot[Len(chatbot)].content.kind \in {"kb_statistics", "kb_details"}
        /\ (chatbot[Len(chatbot)].content.kind = "kb_details") <=>
               (Contains(Lower(ui_last.utterance), W_detail)
                   \/ Contains(Lower(ui_last.utterance), W_full))

\* C25: an utterance starting with "add to kb:" is handled by a flow of its
\* own that adds the paper to the knowledge base; it does not enter the
\* default retrieval-augmented flow.
CE_C25_AddToKbIsACommand ==
    (Chatted /\ StartsWith(Lower(ui_last.utterance), P_add_to_kb)) =>
        /\ ui_last.flow # "default"
        /\ ~Called("kb_search") /\ ~Called("generate") /\ ~Called("web_search")

\* C26: for search arxiv:, summarize arxiv:, search kb: and perplexity:, the
\* argument passed to the flow is the utterance after the complete prefix
\* (colon included), stripped of leading and trailing whitespace.
CE_C26_ArgumentFollowsPrefix ==
    Chatted =>
        \A p \in PrefixesAtStart(ui_last.utterance) \ {P_check_kb} :
            ui_last.arg = Strip(SubSeq(ui_last.utterance, Len(p) + 1,
                                       Len(ui_last.utterance)))

\* C29: no flow of chat changes the conversation memory: after chat returns,
\* the message log, the summarizer's chat history and the persisted log file
\* are what the constructor left.
T_C29_ChatLeavesMemory ==
    Chatted =>
        /\ messages = EmptyList
        /\ chat_memory = <<>>
        /\ memory_file = MissingFile
        /\ last.op = "init"

\* two turns that both reached the generation call
W_C29_ChatLeavesMemory ==
    /\ Chatted
    /\ Len(chatbot) = 4
    /\ chatbot[2].content.kind = "answer"
    /\ ui_last.calls = <<"kb_search", "generate">>
    /\ messages = EmptyList

----------------------------------------------------------------------------
(* Claim about the web search, checked under SpecWeb *)

Searched == ui_last.flow = "query_perplexity"

\* C21: when the request was answered with HTTP 200 and the write of the
\* search log failed, query_perplexity still returns the formatted answer to
\* the question asked.
CE_C21_FailedLogKeepsAnswer ==
    (Searched /\ ui_last.http = "200" /\ ui_last.logw = "failed")
        => ui_last.text = [kind |-> "perplexity_result", query |-> ui_last.utterance]

----------------------------------------------------------------------------
(* Claim about the request sent to the LLM, checked under SpecModel *)

Asked == last.op = "claude_get_response"

\* the messages sent before the final one
SentHistory == SubSeq(last.sent, 1, Len(last.sent) - 1)

\* the position in the history given of the entry a sent message came from:
\* same content, and the role the message type stands for
RoleOfType(t) == IF t = "human" THEN "user" ELSE "assistant"
OriginsOf(m) ==
    {i \in 1..Len(last.history.items) :
        /\ last.history.items[i].content = m.content
        /\ last.history.items[i].role = RoleOfType(m.type)}

\* C27: the request holds at most six history entries, each one of the last
\* six entries given, in their order and with their roles, then exactly one
\* human message with the current message (and the context, when one is
\* given); no older entry is sent.
T_C27_LastSixThenMessage ==
    Asked =>
        LET h == last.history.items
            n == Len(h)
            body == SentHistory
        IN  /\ Len(last.sent) >= 1
            /\ Len(body) <= 6
            /\ last.sent[Len(last.sent)] =
                   [type |-> "human",
                    content |-> IF last.context \in {NoContext, ""} THEN last.query
                                ELSE last.query \o "\n\n" \o last.context]
            /\ \A j \in 1..Len(body) :
                   \E i \in OriginsOf(body[j]) : i > n - 6
            /\ \A j \in 1..Len(body) : \A i \in OriginsOf(body[j]) : i > n - 6
            /\ \A j1, j2 \in 1..Len(body) :
                   j1 < j2 => \A i1 \in OriginsOf(body[j1]), i2 \in OriginsOf(body[j2]) :
                                 i1 < i2

\* a history of more than six entries was given, with an older user entry and
\* a system entry among the last six, and a context
W_C27_LastSixThenMessage ==
    /\ Asked
    /\ Len(last.history.items) = 7
    /\ last.history.items[1].role = "user"
    /\ last.history.items[3].role = "system"
    /\ last.context = "ctx"
    /\ Len(SentHistory) = 5

----------------------------------------------------------------------------
(* Claim about the Listen button, checked under SpecVoice *)

Spoke == ui_last.flow = "speak"

\* the positions of the assistant entries of the history the handler was given
AssistantEntries ==
    {i \in 1..Len(ui_last.startHistory) : ui_last.startHistory[i].role = "assistant"}

\* C28: speak_last_response passes to the speech synthesis the content of the
\* most recent assistant entry of the history, and returns None without a
\* synthesis call when the history has no assistant entry.
CE_C28_SpeaksLastAssistantContent ==
    Spoke =>
        IF AssistantEntries = {}
        THEN ui_last.calls = <<>> /\ ui_last.audio = "none"
        ELSE LET i == CHOOSE k \in AssistantEntries :
                          \A j \in AssistantEntries : j <= k
             IN  /\ ui_last.calls = <<"generate_speech">>
                 /\ ui_last.spoken = ui_last.startHistory[i].content

----------------------------------------------------------------------------
(* Claim about the round trip through the files, checked under SpecFiles *)

\* the log was saved by add_message and loaded next, the registry was saved
\* by save_paper_details and read next
LogSavedThenLoaded == last.op = "_load_messages" /\ last.prevOp = "add_message"
RegistrySavedThenLoaded ==
    ui_last.flow = "get_paper_details" /\ ui_last.prev = "save_paper_details"

\* C23 as stated: the log loaded right after a save is the log that was saved,
\* and the registry read right after a save is the registry that was saved.
CE_C23_RoundTrip ==
    /\ LogSavedThenLoaded => messages = last.saved
    /\ RegistrySavedThenLoaded => ui_last.loaded = ui_last.saved

\* C23: the log loaded right after a save whose write succeeded is the log
\* that was saved (same messages, order, roles and contents), and the registry
\* read right after a save whose write succeeded is the registry that was
\* saved (same keys, same records).
T_C23_RoundTripOfWrittenFile ==
    /\ (LogSavedThenLoaded /\ last.writes = <<"ok">>)
           => (constructed = "ok" /\ messages = last.saved)
    /\ (RegistrySavedThenLoaded /\ ui_last.ws = <<"ok">>)
           => ui_last.loaded = ui_last.saved

\* a log of two messages, each with a character outside ASCII, a quote, a
\* backslash and a newline, came back from the file, and so did a registry of
\* two papers
W_C23_RoundTripOfWrittenFile ==
    /\ LogSavedThenLoaded
    /\ last.writes = <<"ok">>
    /\ Len(messages.items) = 2
    /\ GetKey(messages.items[1], Role).chars = User
    /\ GetKey(messages.items[2], Role).chars = Assistant
    /\ \A i \in 1..2 :
           /\ GetKey(messages.items[i], Content).chars[1] = EAcute
           /\ GetKey(messages.items[i], Content).chars[3] = Backslash
    /\ RegistrySavedThenLoaded
    /\ ui_last.ws = <<"ok">>
    /\ Len(ui_last.loaded.items) = 2

----------------------------------------------------------------------------
(* Claim about the summarizer's chat history, checked under SpecSync *)

\* C30: in every state reached through construction, add_message,
\* get_response and reset, the summarizer's chat history holds the same
\* (role, content) entries, in the same order, as the message log.
CE_C30_SummarizerMirrorsLog ==
    constructed = "ok" =>
        /\ Len(chat_memory) = PyLen(messages)
        /\ \A i \in 1..Len(chat_memory) :
               /\ chat_memory[i].role = messages.items[i].role
               /\ chat_memory[i].content = messages.items[i].content

====
